---------------------------- MODULE Spec2Model ----------------------------
(***************************************************************************)
(* Model of the Gemini service layer (services/geminiService) and of the   *)
(* ManagementView handlers that drive it.                                  *)
(*                                                                         *)
(* Every service function is an async function: it runs synchronously up   *)
(* to its first await, and each later step is the arrival of what it       *)
(* awaits (a backend response, a backend failure, a timer).  A call in     *)
(* flight is a record of `calls'; the module-level client `ai' and the     *)
(* backend's operation table are shared by all calls.                      *)
(***************************************************************************)
EXTENDS Integers, Sequences, FiniteSets, TLC

VARIABLES
    ai,      \* geminiService's module-level client: FALSE while undefined
    calls,   \* the service calls in flight, by call slot
    ops,     \* the backend's long-running operations: handle -> status
    view     \* ManagementView's React state

vars == <<ai, calls, ops, view>>

-----------------------------------------------------------------------------
(* Bounds of the model *)

MaxCalls == 2      \* call slots: service calls that can be in flight together
MaxPolls == 3      \* not-done observations explored per ingestion call
MaxPages == 2      \* pages a backend listing is split into
MaxRecords == 3    \* records a backend listing holds over all its pages

CallIds == 1..MaxCalls
Handles == CallIds  \* the backend keeps one operation per ingestion in flight

\* A string is the sequence of its characters; <<>> stands for both the
\* empty string and an absent (undefined) one, which the code's truthiness
\* tests and `?.' treat alike.
StoreA == <<"a">>
StoreAB == <<"a", "b">>
StoreNames == {StoreA, StoreAB}
\* The store an ingestion targets takes no part in its poll loop.
IngestStores == {StoreA}

\* What the backend's store listing may hold: stores with and without a
\* name, with and without a display name.
StoreRecords ==
    { [name |-> StoreA, displayName |-> <<"A">>],
      [name |-> StoreAB, displayName |-> <<"B">>],
      [name |-> <<>>, displayName |-> <<"A">>],
      [name |-> StoreA, displayName |-> <<>>] }

\* What the backend's global file listing may hold: documents of store a,
\* of store ab, and one without a name.
FileRecords ==
    { [name |-> <<"a", "/", "x">>, displayName |-> <<"x">>],
      [name |-> <<"a", "/", "y">>, displayName |-> <<>>],
      [name |-> <<"a", "b", "/", "x">>, displayName |-> <<"x">>],
      [name |-> <<>>, displayName |-> <<"x">>] }

-----------------------------------------------------------------------------
(* Helpers on sequences *)

RECURSIVE Count(_, _)
Count(s, x) ==
    IF s = <<>> THEN 0
    ELSE (IF Head(s) = x THEN 1 ELSE 0) + Count(Tail(s), x)

Last(s) == s[Len(s)]

RECURSIVE Flatten(_)
Flatten(ss) == IF ss = <<>> THEN <<>> ELSE Head(ss) \o Flatten(Tail(ss))

SeqsUpTo(S, n) == UNION { [1..k -> S] : k \in 0..n }

\* String.prototype.startsWith
StartsWith(s, prefix) ==
    /\ Len(prefix) <= Len(s)
    /\ SubSeq(s, 1, Len(prefix)) = prefix

-----------------------------------------------------------------------------
(* A call slot.  `trace' is the sequence of backend requests and timers the *)
(* call has issued, with "rejected" after a request that failed; `obs' is   *)
(* the sequence of operation snapshots the call has been handed.            *)

NoOp == [handle |-> 0, done |-> FALSE, error |-> FALSE]

\* `acc' is the array a listing call collects into (its return value once
\* the call has returned), `pages' the pages its pager has handed it, `reply'
\* the index of the backend's answer among the answers it may give (0: none
\* yet), `name' the value createRagStore returns, `res' the one of
\* fileSearch, `out' the one of generateExampleQuestions, `by' the
\* ManagementView handler that awaits the call, `slept' the milliseconds the
\* call has asked its timers for, `language' the language code the call was
\* given, `languageName' the language its prompt names and `scope' the
\* fileSearchStoreNames of its generateContent request, `metadata' the
\* customMetadata of its upload request, `sel' the selectedStore the
\* awaiting handler was rendered with, `storeName' the store an awaiting
\* handleDeleteStore was called for and `unmounted' whether the component
\* that rendered the handler has been unmounted since.
NoResult == [text |-> <<>>, groundingChunks |-> <<>>]

IdleCall ==
    [fn |-> "idle", pc |-> "idle", arg |-> <<>>, op |-> NoOp,
     trace |-> <<>>, obs |-> <<>>, err |-> "none",
     acc |-> <<>>, pages |-> <<>>, reply |-> 0, name |-> <<>>,
     res |-> NoResult, out |-> <<>>, by |-> "none", slept |-> 0,
     language |-> "", languageName |-> "", scope |-> <<>>,
     metadata |-> <<>>, sel |-> <<>>, storeName |-> <<>>,
     unmounted |-> FALSE]

\* `if (!ai) throw new Error("Gemini AI not initialized")': the call ends
\* rejected before it has issued anything.
NotInitialized(fn, arg) ==
    [IdleCall EXCEPT !.fn = fn, !.arg = arg, !.pc = "failed",
                     !.err = "Gemini AI not initialized"]

\* The call has issued backend request `req' and is suspended at `pc'.
Started(fn, arg, req, pc) ==
    [IdleCall EXCEPT !.fn = fn, !.arg = arg, !.pc = pc, !.trace = <<req>>]

Enter_Unguarded(fn, arg, req, pc) == Started(fn, arg, req, pc)

\* The head of every service function: the guard on `ai', then the first
\* backend request.
Enter(fn, arg, req, pc) ==
    IF ~ai THEN NotInitialized(fn, arg) ELSE Started(fn, arg, req, pc)

Rejected_Reissue(call) ==
    [call EXCEPT !.trace = @ \o <<"rejected", call.trace[1]>>]

\* An awaited backend request rejects: the async function rejects with it.
Rejected_Retry(call) ==
    [call EXCEPT !.pc = "delay", !.trace = @ \o <<"rejected", "delay">>]

Rejected(call) ==
    [call EXCEPT !.pc = "failed", !.err = "TransportError",
                 !.trace = Append(@, "rejected")]

-----------------------------------------------------------------------------
(* initialize *)

InFlight(call) == call.pc \notin {"idle", "returned", "failed"}

Initialize_Reset ==
    /\ ai' = TRUE
    /\ calls' = [c \in CallIds |->
                   IF InFlight(calls[c]) THEN Rejected(calls[c])
                   ELSE calls[c]]
    /\ UNCHANGED <<ops, view>>

\* `ai = new GoogleGenAI(...)': the module-level client is replaced; calls
\* suspended at an await are not touched.
Initialize ==
    /\ ai' = TRUE
    /\ UNCHANGED <<calls, ops, view>>

-----------------------------------------------------------------------------
(* The backend's operation table *)

\* The Operation a backend response carries for handle h: `done' is set once
\* the operation is terminal, `error' when it ended in failure.
Snapshot(h) ==
    [handle |-> h, done |-> ops[h] \in {"done", "failed"},
     error |-> ops[h] = "failed"]

FreeHandles == {h \in Handles : ops[h] = "none"}

BackendCompletes(h) ==
    /\ ops[h] = "running"
    /\ ops' = [ops EXCEPT ![h] = "done"]
    /\ UNCHANGED <<ai, calls, view>>

BackendFails(h) ==
    /\ ops[h] = "running"
    /\ ops' = [ops EXCEPT ![h] = "failed"]
    /\ UNCHANGED <<ai, calls, view>>

-----------------------------------------------------------------------------
(* uploadDocument / uploadToRagStore: submit, then poll *)

Sleeps(call) == Count(call.trace, "delay")
Fetches(call) == Count(call.trace, "operations.get")

\* `await delay(3000)': the interval of the poll loop, in milliseconds.
PollIntervalMs == 3000

\* `delay(ms)': the call arms a timer of ms milliseconds and is suspended
\* until it fires.
delay(call, ms) ==
    [call EXCEPT !.pc = "delay", !.trace = Append(@, "delay"),
                 !.slept = @ + ms]

PollTest_Limit(call, op) ==
    IF op.done
    THEN [call EXCEPT !.op = op, !.obs = Append(@, op), !.pc = "returned"]
    ELSE IF Len(call.obs) >= 2
    THEN [call EXCEPT !.op = op, !.obs = Append(@, op), !.pc = "failed",
                      !.err = "timeout"]
    ELSE delay([call EXCEPT !.op = op, !.obs = Append(@, op)],
               PollIntervalMs)

PollTest_DoWhile(call, op) ==
    IF op.done /\ call.obs # <<>>
    THEN [call EXCEPT !.op = op, !.obs = Append(@, op), !.pc = "returned"]
    ELSE delay([call EXCEPT !.op = op, !.obs = Append(@, op)],
               PollIntervalMs)

PollTest_NoSleep(call, op) ==
    IF op.done
    THEN [call EXCEPT !.op = op, !.obs = Append(@, op), !.pc = "returned"]
    ELSE [call EXCEPT !.op = op, !.obs = Append(@, op), !.pc = "get",
                      !.trace = Append(@, "operations.get")]

PollTest_Inverted(call, op) ==
    IF ~op.done
    THEN [call EXCEPT !.op = op, !.obs = Append(@, op), !.pc = "returned"]
    ELSE [call EXCEPT !.op = op, !.obs = Append(@, op), !.pc = "delay",
                      !.trace = Append(@, "delay")]

\* `while (!op.done) { await delay(3000); ...': the loop test on the
\* operation just handed to the call.
PollTest(call, op) ==
    IF op.done
    THEN [call EXCEPT !.op = op, !.obs = Append(@, op), !.pc = "returned"]
    ELSE delay([call EXCEPT !.op = op, !.obs = Append(@, op)],
               PollIntervalMs)

UploadCall(c, fn, store) ==
    /\ calls[c].pc = "idle"
    /\ calls' = [calls EXCEPT ![c] =
                    Enter(fn, store, "uploadToFileSearchStore", "submit")]
    /\ UNCHANGED <<ai, ops, view>>

uploadDocument(c) ==
    \E store \in IngestStores : UploadCall(c, "uploadDocument", store)

uploadToRagStore(c) ==
    \E store \in IngestStores : UploadCall(c, "uploadToRagStore", store)

\* The submit resolves with the operation the backend created; the backend
\* may already have finished (or failed) it.
SubmitResolves(c) ==
    /\ calls[c].pc = "submit"
    /\ \E h \in FreeHandles, st \in {"running", "done", "failed"} :
          /\ h = CHOOSE x \in FreeHandles : \A y \in FreeHandles : x <= y
          /\ st = "running" => Sleeps(calls[c]) < MaxPolls
          /\ ops' = [ops EXCEPT ![h] = st]
          /\ calls' = [calls EXCEPT ![c] =
                PollTest(@, [handle |-> h, done |-> st # "running",
                             error |-> st = "failed"])]
    /\ UNCHANGED <<ai, view>>

SubmitRejects(c) ==
    /\ calls[c].pc = "submit"
    /\ calls' = [calls EXCEPT ![c] = Rejected(@)]
    /\ UNCHANGED <<ai, ops, view>>

\* The timer of delay(3000) fires: `op = await ai.operations.get({operation: op})'
\* issues the status fetch.
\* The request is made on the module-level `ai' as it is when the timer
\* fires: a TypeError were it undefined.
StatusFetch(call) ==
    IF ai
    THEN [call EXCEPT !.pc = "get", !.trace = Append(@, "operations.get")]
    ELSE [call EXCEPT !.pc = "failed", !.err = "TypeError"]

DelayElapses(c) ==
    /\ calls[c].pc = "delay"
    /\ calls' = [calls EXCEPT ![c] = StatusFetch(@)]
    /\ UNCHANGED <<ai, ops, view>>

\* `ai.operations.get({operation: op})': `op' is a local of the call, the
\* operation it was last handed.
OperationOf_Shared(c) ==
    CHOOSE h \in Handles :
        /\ ops[h] # "none"
        /\ \A g \in Handles : ops[g] # "none" => h <= g

OperationOf(c) == calls[c].op.handle

GetResolves(c) ==
    /\ calls[c].pc = "get"
    /\ LET op == Snapshot(OperationOf(c)) IN
          /\ ~op.done => Sleeps(calls[c]) < MaxPolls
          /\ calls' = [calls EXCEPT ![c] = PollTest(@, op)]
    /\ UNCHANGED <<ai, ops, view>>

GetRejects(c) ==
    /\ calls[c].pc = "get"
    /\ calls' = [calls EXCEPT ![c] = Rejected(@)]
    /\ UNCHANGED <<ai, ops, view>>

-----------------------------------------------------------------------------
(* listRagStores / listDocumentsInStore: drain the pager *)

\* `if (store.name && store.displayName)'
KeepStore(store) == store.name # <<>> /\ store.displayName # <<>>

KeepDocument_NoSlash(doc, ragStoreName) == StartsWith(doc.name, ragStoreName)

\* `if (doc.name?.startsWith(`${ragStoreName}/`))'
KeepDocument(doc, ragStoreName) ==
    StartsWith(doc.name, ragStoreName \o <<"/">>)

Keep(call, r) ==
    IF call.fn = "listRagStores" THEN KeepStore(r)
    ELSE KeepDocument(r, call.arg)

\* The body of `for await (const ... of response)' over one page.
Collect_LastPageOnly(call, page) ==
    SelectSeq(page, LAMBDA r : Keep(call, r))

Collect(call, page) ==
    call.acc \o SelectSeq(page, LAMBDA r : Keep(call, r))

listRagStores(c) ==
    /\ calls[c].pc = "idle"
    /\ calls' = [calls EXCEPT ![c] =
                    Enter("listRagStores", <<>>, "fileSearchStores.list",
                          "page")]
    /\ UNCHANGED <<ai, ops, view>>

listDocumentsInStore(c) ==
    /\ calls[c].pc = "idle"
    /\ \E ragStoreName \in StoreNames :
          calls' = [calls EXCEPT ![c] =
                      Enter("listDocumentsInStore", ragStoreName,
                            "files.list", "page")]
    /\ UNCHANGED <<ai, ops, view>>

IsListing(call) == call.fn \in {"listRagStores", "listDocumentsInStore"}

Universe(call) ==
    IF call.fn = "listRagStores" THEN StoreRecords ELSE FileRecords

\* A page arrives (the first from list(), a later one from the pager's
\* nextPage()): its records are iterated, and the pager asks for the next
\* page when the backend says there is one.
Paged(call, page, hasNextPage) ==
    [call EXCEPT !.acc = Collect(call, page),
                 !.pages = Append(@, page),
                 !.trace = IF hasNextPage THEN Append(@, "nextPage") ELSE @,
                 !.pc = IF hasNextPage THEN "page" ELSE "returned"]

PageResolves(c) ==
    /\ IsListing(calls[c]) /\ calls[c].pc = "page"
    /\ \E page \in SeqsUpTo(Universe(calls[c]),
                             MaxRecords - Len(Flatten(calls[c].pages))),
          hasNextPage \in BOOLEAN :
          /\ hasNextPage => Len(calls[c].pages) + 1 < MaxPages
          /\ calls' = [calls EXCEPT ![c] = Paged(@, page, hasNextPage)]
    /\ UNCHANGED <<ai, ops, view>>

PageRejects(c) ==
    /\ IsListing(calls[c]) /\ calls[c].pc = "page"
    /\ calls' = [calls EXCEPT ![c] = Rejected(@)]
    /\ UNCHANGED <<ai, ops, view>>

-----------------------------------------------------------------------------
(* createRagStore *)

DisplayNames == {<<"A">>, <<>>}

createRagStore(c) ==
    /\ calls[c].pc = "idle"
    /\ \E displayName \in DisplayNames :
          calls' = [calls EXCEPT ![c] =
                      Enter("createRagStore", displayName,
                            "fileSearchStores.create", "create")]
    /\ UNCHANGED <<ai, ops, view>>

CreateOutcome_Unchecked(call, ragStoreName) ==
    [call EXCEPT !.pc = "returned", !.name = ragStoreName]

\* `if (!ragStore.name) throw ...; return ragStore.name;'
CreateOutcome(call, ragStoreName) ==
    IF ragStoreName = <<>>
    THEN [call EXCEPT !.pc = "failed",
                      !.err = "Failed to create RAG store: name is missing."]
    ELSE [call EXCEPT !.pc = "returned", !.name = ragStoreName]

\* The backend answers the create with a store whose name it assigned, or
\* with one that carries no name.
CreateReplies == <<StoreA, StoreAB, <<>>>>

CreateResolves(c) ==
    /\ calls[c].fn = "createRagStore" /\ calls[c].pc = "create"
    /\ \E i \in DOMAIN CreateReplies :
          calls' = [calls EXCEPT ![c] =
                      CreateOutcome([@ EXCEPT !.reply = i], CreateReplies[i])]
    /\ UNCHANGED <<ai, ops, view>>

CreateRejects(c) ==
    /\ calls[c].fn = "createRagStore" /\ calls[c].pc = "create"
    /\ calls' = [calls EXCEPT ![c] = Rejected(@)]
    /\ UNCHANGED <<ai, ops, view>>

-----------------------------------------------------------------------------
(* deleteRagStore / deleteDocument *)

deleteRagStore(c) ==
    /\ calls[c].pc = "idle"
    /\ \E ragStoreName \in StoreNames :
          calls' = [calls EXCEPT ![c] =
                      Enter("deleteRagStore", ragStoreName,
                            "fileSearchStores.delete", "delete")]
    /\ UNCHANGED <<ai, ops, view>>

deleteDocument(c) ==
    /\ calls[c].pc = "idle"
    /\ \E doc \in {d \in FileRecords : d.name # <<>>} :
          calls' = [calls EXCEPT ![c] =
                      Enter("deleteDocument", doc.name, "files.delete",
                            "delete")]
    /\ UNCHANGED <<ai, ops, view>>

DeleteResolves(c) ==
    /\ calls[c].pc = "delete"
    /\ calls' = [calls EXCEPT ![c] = [@ EXCEPT !.pc = "returned"]]
    /\ UNCHANGED <<ai, ops, view>>

DeleteRejects(c) ==
    /\ calls[c].pc = "delete"
    /\ calls' = [calls EXCEPT ![c] = Rejected(@)]
    /\ UNCHANGED <<ai, ops, view>>

-----------------------------------------------------------------------------
(* fileSearch *)

\* Answers of models.generateContent to a query: `upTo' is how far the chain
\* candidates?.[0]?.groundingMetadata?.groundingChunks is defined.
QueryReplies ==
    << [text |-> <<"t">>, upTo |-> "groundingChunks",
        chunks |-> <<"c1", "c2">>],
       [text |-> <<"t">>, upTo |-> "groundingChunks", chunks |-> <<>>],
       [text |-> <<"t">>, upTo |-> "groundingMetadata", chunks |-> <<>>],
       [text |-> <<"t">>, upTo |-> "candidates", chunks |-> <<>>],
       [text |-> <<>>, upTo |-> "response", chunks |-> <<>>] >>

\* The table of language names by language code (from '../types'): a
\* plain object, as Object.entries is applied to it.
supportedLanguages == [en |-> "English", es |-> "Spanish"]

\* Members every plain object inherits from Object.prototype.
InheritedMembers == {"constructor"}

\* The codes a caller may pass: codes of the table, a code that is not in
\* it, and the name of an inherited member.
LanguageCodes == {"en", "es", "xx", "constructor"}

\* `supportedLanguages[language] || fallback' inside a template literal: an
\* own entry gives its name; an inherited member is truthy and is written
\* out as its source text; anything else is undefined and gives the
\* fallback.
LanguageName(language, fallback) ==
    IF language \in DOMAIN supportedLanguages
    THEN supportedLanguages[language]
    ELSE IF language \in InheritedMembers
    THEN "function Object() { [native code] }"
    ELSE fallback

\* What a generateContent request carries: `Please respond in
\* ${languageName}' (`in ${languageName}') and `fileSearchStoreNames:
\* [ragStoreName]'.  A call stopped by the guard carries nothing.
Generate(call, language, languageName, ragStoreName) ==
    IF call.trace = <<>> THEN call
    ELSE [call EXCEPT !.language = language, !.languageName = languageName,
                      !.scope = <<ragStoreName>>]

fileSearch(c) ==
    /\ calls[c].pc = "idle"
    /\ \E ragStoreName \in StoreNames, language \in LanguageCodes :
          calls' = [calls EXCEPT ![c] =
              Generate(Enter("fileSearch", ragStoreName,
                             "models.generateContent", "query"),
                       language,
                       LanguageName(language, "the user's query language"),
                       ragStoreName)]
    /\ UNCHANGED <<ai, ops, view>>

GroundingChunks_NoDefault(response) ==
    IF response.upTo = "groundingChunks" THEN response.chunks
    ELSE <<"undefined">>

\* `response.candidates?.[0]?.groundingMetadata?.groundingChunks || []'
GroundingChunks(response) ==
    IF response.upTo = "groundingChunks" THEN response.chunks ELSE <<>>

\* `return { text: response.text, groundingChunks: groundingChunks }'
QueryOutcome(call, i) ==
    [call EXCEPT !.reply = i, !.pc = "returned",
                 !.res = [text |-> QueryReplies[i].text,
                          groundingChunks |->
                              GroundingChunks(QueryReplies[i])]]

QueryResolves(c) ==
    /\ calls[c].fn = "fileSearch" /\ calls[c].pc = "query"
    /\ \E i \in DOMAIN QueryReplies :
          calls' = [calls EXCEPT ![c] = QueryOutcome(@, i)]
    /\ UNCHANGED <<ai, ops, view>>

QueryRejects(c) ==
    /\ calls[c].fn = "fileSearch" /\ calls[c].pc = "query"
    /\ calls' = [calls EXCEPT ![c] = Rejected(@)]
    /\ UNCHANGED <<ai, ops, view>>

-----------------------------------------------------------------------------
(* generateExampleQuestions *)

\* JSON values, as JSON.parse builds them.
JStr(x) == [t |-> "str", s |-> x]
JNum == [t |-> "num"]
JNull == [t |-> "null"]
JArr(xs) == [t |-> "arr", items |-> xs]
JTopic(q) == [t |-> "obj", has |-> TRUE, questions |-> q]   \* {product, questions}
JOther == [t |-> "obj", has |-> FALSE, questions |-> JNull] \* no `questions' key

\* Answers of models.generateContent to the example-question prompt, by what
\* JSON.parse makes of them: no text at all, a text JSON.parse rejects, or a
\* text whose selected part parses to `data'.
GenPayloads ==
    << [hasText |-> FALSE, parses |-> FALSE, data |-> JNull],
       [hasText |-> TRUE, parses |-> FALSE, data |-> JNull],
       [hasText |-> TRUE, parses |-> TRUE, data |-> JOther],
       [hasText |-> TRUE, parses |-> TRUE, data |-> JArr(<<>>)],
       [hasText |-> TRUE, parses |-> TRUE,
        data |-> JArr(<<JStr("q1"), JNum, JStr("q2")>>)],
       [hasText |-> TRUE, parses |-> TRUE,
        data |-> JArr(<<JTopic(JArr(<<JStr("q1"), JNum>>)),
                        JTopic(JArr(<<JStr("q2"), JStr("q3")>>))>>)],
       [hasText |-> TRUE, parses |-> TRUE,
        data |-> JArr(<<JTopic(JArr(<<JStr("q1")>>)), JNull>>)],
       [hasText |-> TRUE, parses |-> TRUE,
        data |-> JArr(<<JTopic(JArr(<<JStr("q1")>>)), JOther,
                        JTopic(JStr("q2")), JTopic(JNum), JStr("q3")>>)],
       [hasText |-> TRUE, parses |-> TRUE,
        data |-> JArr(<<JTopic(JStr("q1")), JStr("q2")>>)],
       [hasText |-> TRUE, parses |-> TRUE,
        data |-> JArr(<<JNum, JStr("q1")>>)],
       [hasText |-> TRUE, parses |-> TRUE,
        data |-> JArr(<<JNull, JStr("q1")>>)],
       [hasText |-> TRUE, parses |-> TRUE,
        data |-> JArr(<<JOther, JTopic(JArr(<<JStr("q1")>>))>>)] >>

(* The text of an answer is the sequence of its lexical tokens: the fence  *)
(* markers (three backquotes, with the label json or bare), line breaks,   *)
(* spaces, the JSON punctuation, JSON string literals (by their content),  *)
(* numbers, null, and words of prose.  The characters inside a string      *)
(* literal or a word are not looked into.                                  *)
Fence(label) == [k |-> "fence", v |-> label]
FenceJson == Fence("json")
FenceEnd == Fence("")
NL == [k |-> "nl", v |-> "LF"]
SP == [k |-> "sp", v |-> " "]
Punct(v) == [k |-> "punct", v |-> v]
Lit(v) == [k |-> "str", v |-> v]
Word(v) == [k |-> "word", v |-> v]

IsSpace(tok) == tok.k \in {"nl", "sp"}

\* String.prototype.trim
RECURSIVE TrimStart(_)
TrimStart(text) ==
    IF text # <<>> /\ IsSpace(Head(text)) THEN TrimStart(Tail(text))
    ELSE text

RECURSIVE TrimEnd(_)
TrimEnd(text) ==
    IF text # <<>> /\ IsSpace(Last(text))
    THEN TrimEnd(SubSeq(text, 1, Len(text) - 1))
    ELSE text

Trim(text) == TrimEnd(TrimStart(text))

Min(S) == CHOOSE x \in S : \A y \in S : x <= y
Max(S) == CHOOSE x \in S : \A y \in S : y <= x

\* jsonText.match of the pattern: three backquotes, json, a line break, a
\* lazy group, a line break, three backquotes.  It matches at the leftmost
\* json fence that a line break follows and that has, after that line
\* break, a line break followed by three backquotes (those of either fence
\* marker); the group is what lies between, up to the first such closing.
FenceMatch(text) ==
    LET opens == {i \in 1..(Len(text) - 1) :
                     text[i] = FenceJson /\ text[i + 1] = NL}
        closes(i) == {j \in (i + 2)..(Len(text) - 1) :
                         text[j] = NL /\ text[j + 1].k = "fence"}
    IN  IF opens = {} \/ closes(Min(opens)) = {}
        THEN [found |-> FALSE, group |-> <<>>]
        ELSE [found |-> TRUE,
              group |-> SubSeq(text, Min(opens) + 2,
                               Min(closes(Min(opens))) - 1)]

BracketSlice_Exclusive(text) ==
    LET firsts == {i \in DOMAIN text : text[i] = Punct("[")}
        lasts == {i \in DOMAIN text : text[i] = Punct("]")}
    IN  IF firsts # {} /\ lasts # {} /\ Max(lasts) > Min(firsts)
        THEN SubSeq(text, Min(firsts), Max(lasts) - 1)
        ELSE text

\* `indexOf('[')', `lastIndexOf(']')' and the `substring' between them
BracketSlice(text) ==
    LET firsts == {i \in DOMAIN text : text[i] = Punct("[")}
        lasts == {i \in DOMAIN text : text[i] = Punct("]")}
    IN  IF firsts # {} /\ lasts # {} /\ Max(lasts) > Min(firsts)
        THEN SubSeq(text, Min(firsts), Max(lasts))
        ELSE text

\* The text handed to JSON.parse: `if (jsonMatch && jsonMatch[1])', where an
\* empty group is falsy.
SelectJsonText(responseText) ==
    LET jsonText == Trim(responseText)
        jsonMatch == FenceMatch(jsonText)
    IN  IF jsonMatch.found /\ jsonMatch.group # <<>> THEN jsonMatch.group
        ELSE BracketSlice(jsonText)

\* JSON.parse, by recursive descent over the tokens.
ParseFails == [ok |-> FALSE, v |-> JNull, next |-> 0]

RECURSIVE SkipSpace(_, _)
SkipSpace(text, i) ==
    IF i <= Len(text) /\ IsSpace(text[i]) THEN SkipSpace(text, i + 1) ELSE i

RECURSIVE ParseValue(_, _)
RECURSIVE ParseElements(_, _, _)
RECURSIVE ParseMembers(_, _, _, _)

ParseValue(text, from) ==
    LET i == SkipSpace(text, from) IN
    IF i > Len(text) THEN ParseFails
    ELSE CASE text[i].k = "str" ->
                [ok |-> TRUE, v |-> JStr(text[i].v), next |-> i + 1]
           [] text[i].k = "num" -> [ok |-> TRUE, v |-> JNum, next |-> i + 1]
           [] text[i].k = "null" -> [ok |-> TRUE, v |-> JNull, next |-> i + 1]
           [] text[i] = Punct("[") -> ParseElements(text, i + 1, <<>>)
           [] text[i] = Punct("{") -> ParseMembers(text, i + 1, JOther, TRUE)
           [] OTHER -> ParseFails

\* The elements of an array after its `[' or after a comma; only an array
\* with no element so far may close at once.
ParseElements(text, from, items) ==
    LET i == SkipSpace(text, from) IN
    IF i > Len(text) THEN ParseFails
    ELSE IF text[i] = Punct("]") /\ items = <<>>
    THEN [ok |-> TRUE, v |-> JArr(<<>>), next |-> i + 1]
    ELSE LET elem == ParseValue(text, i)
             j == SkipSpace(text, elem.next)
         IN  IF ~elem.ok \/ j > Len(text) THEN ParseFails
             ELSE IF text[j] = Punct(",")
             THEN ParseElements(text, j + 1, Append(items, elem.v))
             ELSE IF text[j] = Punct("]")
             THEN [ok |-> TRUE, v |-> JArr(Append(items, elem.v)),
                   next |-> j + 1]
             ELSE ParseFails

\* The members of an object after its `{' or after a comma.  Of an object
\* only its `questions' member is kept (the last one, were there several).
ParseMembers(text, from, obj, first) ==
    LET i == SkipSpace(text, from) IN
    IF i > Len(text) THEN ParseFails
    ELSE IF text[i] = Punct("}") /\ first
    THEN [ok |-> TRUE, v |-> obj, next |-> i + 1]
    ELSE IF text[i].k # "str" THEN ParseFails
    ELSE LET colon == SkipSpace(text, i + 1) IN
         IF colon > Len(text) \/ text[colon] # Punct(":") THEN ParseFails
         ELSE LET member == ParseValue(text, colon + 1)
                  j == SkipSpace(text, member.next)
                  read == IF text[i].v = "questions" THEN JTopic(member.v)
                          ELSE obj
              IN  IF ~member.ok \/ j > Len(text) THEN ParseFails
                  ELSE IF text[j] = Punct(",")
                  THEN ParseMembers(text, j + 1, read, FALSE)
                  ELSE IF text[j] = Punct("}")
                  THEN [ok |-> TRUE, v |-> read, next |-> j + 1]
                  ELSE ParseFails

\* JSON.parse(jsonText): the whole text must be one value.
JsonParse(jsonText) ==
    LET value == ParseValue(jsonText, 1) IN
    IF value.ok /\ SkipSpace(jsonText, value.next) > Len(jsonText)
    THEN value
    ELSE ParseFails

\* Texts the model may answer with.
Num == [k |-> "num", v |-> "5"]
Null == [k |-> "null", v |-> "null"]

RECURSIVE Joined(_)
Joined(parts) ==
    IF parts = <<>> THEN <<>>
    ELSE IF Len(parts) = 1 THEN Head(parts)
    ELSE Head(parts) \o <<Punct(",")>> \o Joined(Tail(parts))

\* [ part , part ... ]
ArrayText(parts) == <<Punct("[")>> \o Joined(parts) \o <<Punct("]")>>

\* {"product": product, "questions": questions}
TopicText(product, questions) ==
    <<Punct("{"), Lit("product"), Punct(":"), Lit(product), Punct(","),
      Lit("questions"), Punct(":")>> \o questions \o <<Punct("}")>>

Q1 == <<Lit("q1")>>
Q2 == <<Lit("q2")>>
Q3 == <<Lit("q3")>>

GenTexts ==
    << \* 1: ["q1","q2"]
       ArrayText(<<Q1, Q2>>),
       \* 2: a fenced block, on lines of its own, holding one topic object
       <<FenceJson, NL>>
           \o ArrayText(<<TopicText("A", ArrayText(<<Q1, Q2>>))>>)
           \o <<NL, FenceEnd>>,
       \* 3: not json at all
       <<Word("not"), SP, Word("json"), SP, Word("at"), SP, Word("all")>>,
       \* 4: []
       ArrayText(<<>>),
       \* 5: two topic objects, no fence
       ArrayText(<<TopicText("A", ArrayText(<<Q1>>)),
                   TopicText("B", ArrayText(<<Q2, Q3>>))>>),
       \* 6: the form of the prompt's example, no line break at the fences
       <<FenceJson>> \o ArrayText(<<TopicText("A", ArrayText(<<Q1>>))>>)
           \o <<FenceEnd>>,
       \* 7: the same form, followed by a reference in brackets
       <<FenceJson>> \o ArrayText(<<Q1>>)
           \o <<FenceEnd, SP, Word("see"), SP>> \o ArrayText(<<<<Num>>>>),
       \* 8: prose with brackets, then a fenced block on lines of its own
       <<Word("Here"), SP>> \o ArrayText(<<<<Num>>>>)
           \o <<NL, FenceJson, NL>> \o ArrayText(<<Q1>>)
           \o <<NL, FenceEnd>>,
       \* 9: an array inside prose
       <<Word("Sure:"), SP>> \o ArrayText(<<Q1>>) \o <<SP, Word("done")>>,
       \* 10: an empty fenced block, then an array
       <<FenceJson, NL, NL, FenceEnd, SP>> \o ArrayText(<<Q1>>),
       \* 11: a ] before a [
       <<Punct("]"), SP, Punct("[")>>,
       \* 12: an array of mixed entries between blank space
       <<NL, SP>> \o ArrayText(<<Q1, <<Num>>, Q2>>) \o <<SP, NL>>,
       \* 13: a bare string
       Q1,
       \* 14: a topic object, then null
       ArrayText(<<TopicText("A", ArrayText(<<Q1>>)), <<Null>>>>),
       \* 15: a number, then a string
       ArrayText(<<<<Num>>, Q1>>) >>

\* What the try block has in hand for a text: response.text is defined, and
\* JSON.parse is given the selected part of it.
Respond(responseText) ==
    LET parsedData == JsonParse(SelectJsonText(responseText)) IN
    [hasText |-> TRUE, parses |-> parsedData.ok, data |-> parsedData.v]

\* All the answers explored: the payloads, then the texts.
GenReplies ==
    GenPayloads \o [j \in DOMAIN GenTexts |-> Respond(GenTexts[j])]

Truthy(v) ==
    CASE v.t = "null" -> FALSE
      [] v.t = "str" -> v.s # ""
      [] OTHER -> TRUE

\* `item.questions' throws a TypeError on null; it is undefined on a value
\* without that property.
ReadQuestionsThrows(item) == item.t = "null"

Contribution_ArraysOnly(item) ==
    IF item.t = "obj" /\ item.has /\ item.questions.t = "arr"
    THEN item.questions.items
    ELSE <<>>

\* What `item => (item.questions || [])' contributes under flatMap: the
\* elements of an array, a non-array value itself.
Contribution(item) ==
    IF item.t = "obj" /\ item.has /\ Truthy(item.questions)
    THEN IF item.questions.t = "arr" THEN item.questions.items
         ELSE <<item.questions>>
    ELSE <<>>

RECURSIVE FlatMapQuestions(_)
FlatMapQuestions(items) ==
    IF items = <<>> THEN <<>>
    ELSE Contribution(Head(items)) \o FlatMapQuestions(Tail(items))

RECURSIVE Strings(_)
\* `.filter(q => typeof q === 'string')', each string as its text
Strings(items) ==
    IF items = <<>> THEN <<>>
    ELSE (IF Head(items).t = "str" THEN <<Head(items).s>> ELSE <<>>)
         \o Strings(Tail(items))

FirstIsString_Any(items) == \E i \in DOMAIN items : items[i].t = "str"

\* `const firstItem = parsedData[0]; ... typeof firstItem === 'string''
FirstIsString(items) == items[1].t = "str"

\* The body of the try block from `response.text.trim()' on: what it throws
\* or returns.
TryBody(response) ==
    IF ~response.hasText THEN [threw |-> TRUE, out |-> <<>>]
    ELSE IF ~response.parses THEN [threw |-> TRUE, out |-> <<>>]
    ELSE LET parsedData == response.data IN
         IF parsedData.t # "arr" THEN [threw |-> FALSE, out |-> <<>>]
         ELSE IF parsedData.items = <<>> THEN [threw |-> FALSE, out |-> <<>>]
         ELSE LET firstItem == parsedData.items[1] IN
              IF firstItem.t = "obj" /\ firstItem.has
                 /\ firstItem.questions.t = "arr"
              THEN IF \E i \in DOMAIN parsedData.items :
                         ReadQuestionsThrows(parsedData.items[i])
                   THEN [threw |-> TRUE, out |-> <<>>]
                   ELSE [threw |-> FALSE,
                         out |-> Strings(FlatMapQuestions(parsedData.items))]
              ELSE IF FirstIsString(parsedData.items)
              THEN [threw |-> FALSE, out |-> Strings(parsedData.items)]
              ELSE [threw |-> FALSE, out |-> <<>>]

generateExampleQuestions(c) ==
    /\ calls[c].pc = "idle"
    /\ \E ragStoreName \in StoreNames, language \in LanguageCodes :
          calls' = [calls EXCEPT ![c] =
              Generate(Enter("generateExampleQuestions", ragStoreName,
                             "models.generateContent", "generate"),
                       language, LanguageName(language, "English"),
                       ragStoreName)]
    /\ UNCHANGED <<ai, ops, view>>

Caught_Rethrown(call) ==
    [call EXCEPT !.pc = "failed", !.err = "TransportError"]

\* `catch (error) { console.error(...); return []; }'
Caught(call) == [call EXCEPT !.pc = "returned", !.out = <<>>]

GenResolves(c) ==
    /\ calls[c].fn = "generateExampleQuestions" /\ calls[c].pc = "generate"
    /\ \E i \in DOMAIN GenReplies :
          LET body == TryBody(GenReplies[i]) IN
          calls' = [calls EXCEPT ![c] =
              IF body.threw THEN Caught([@ EXCEPT !.reply = i])
              ELSE [@ EXCEPT !.reply = i, !.pc = "returned",
                             !.out = body.out]]
    /\ UNCHANGED <<ai, ops, view>>

\* The backend request fails inside the try block.
GenRejects(c) ==
    /\ calls[c].fn = "generateExampleQuestions" /\ calls[c].pc = "generate"
    /\ calls' = [calls EXCEPT ![c] =
                    Caught([@ EXCEPT !.trace = Append(@, "rejected")])]
    /\ UNCHANGED <<ai, ops, view>>

-----------------------------------------------------------------------------
(* The caller takes the outcome of a settled call; the slot is free again. *)

Settled(call) == call.pc \in {"returned", "failed"}

\* An operation is not kept beyond the ingestion call that created it.
Release(c) ==
    /\ Settled(calls[c]) /\ calls[c].by = "none"
    /\ calls' = [calls EXCEPT ![c] = IdleCall]
    /\ ops' = [h \in Handles |->
                 IF h = calls[c].op.handle THEN "none" ELSE ops[h]]
    /\ UNCHANGED <<ai, view>>

-----------------------------------------------------------------------------
(* ManagementView: loadStores *)

\* The state of a ManagementView that has just mounted; `error' and `view'
\* are App's state: the error handleError sets ("none" for null) and the
\* view the sidebar has chosen.
\* `selectedStore' is the name of the selected store and `processingFile' a
\* file name, <<>> for null; `queryResult' is null when its `null' is set,
\* and `of' then keeps the store the visible result was asked of.  The last
\* three fields are the state of the DocumentList the view renders.
NoQueryResult == [null |-> TRUE, res |-> NoResult, of |-> <<>>]

EmptyRow == [key |-> <<>>, value |-> <<>>]

\* ChatInterface's state and the props the claims need: `suggestions' with
\* the identity of the array (`ref' flips when the parent passes another
\* array, also one of equal contents), `isQueryLoading', and the state
\* `query', `currentSuggestion'.  `intervals' are the timers setInterval
\* has started and clearInterval has not cleared, each with the list its
\* callback closed over and its `suggestionIndex'.
MaxSuggestions == 3   \* length of a suggestions list

Questions == {"p", "q", "r"}

SuggestionLists == SeqsUpTo(Questions, MaxSuggestions)

NoChat ==
    [mounted |-> FALSE, suggestions |-> <<>>, ref |-> FALSE,
     isQueryLoading |-> FALSE, query |-> "", currentSuggestion |-> "",
     intervals |-> {}]

MountedView ==
    [stores |-> <<>>, selectedStore |-> <<>>, documents |-> <<>>,
     queryResult |-> NoQueryResult, language |-> "en",
     isLoadingStores |-> TRUE, isLoadingDocuments |-> FALSE,
     isQuerying |-> FALSE, processingFile |-> <<>>, error |-> "none",
     isUploadModalOpen |-> FALSE, selectedFile |-> <<>>,
     metadata |-> <<EmptyRow>>, view |-> "management", chat |-> NoChat]

\* `type View'
Views == {"chat", "management", "dashboard", "placeholder"}

renderContent_ViewFirst(v) ==
    IF v.view = "chat" THEN "ChatbotView"
    ELSE IF v.error \notin {"none", ""} THEN "Application Error"
    ELSE IF v.view = "management" THEN "ManagementView"
    ELSE "PlaceholderView"

\* App's renderContent: `if (error) return <the error screen>' (an empty
\* message is as falsy as null), then the switch on view.
renderContent(v) ==
    IF v.error \notin {"none", ""} THEN "Application Error"
    ELSE IF v.view = "chat" THEN "ChatbotView"
    ELSE IF v.view = "management" THEN "ManagementView"
    ELSE "PlaceholderView"

\* ManagementView is rendered only for view 'management' while App's error
\* is null.
Mounted == renderContent(view) = "ManagementView"

\* `setIsLoadingStores(true); geminiService.initialize();
\*  ... await geminiService.listRagStores()': runs up to the first await.
loadStores(c) ==
    /\ Mounted
    /\ calls[c].pc = "idle"
    /\ view' = [view EXCEPT !.isLoadingStores = TRUE]
    /\ ai' = TRUE
    /\ calls' = [calls EXCEPT ![c] =
                    [Started("listRagStores", <<>>, "fileSearchStores.list",
                             "page") EXCEPT !.by = "loadStores"]]
    /\ UNCHANGED ops

LoadStoresOutcome_Partial(v, call) ==
    IF call.pc = "returned"
    THEN [v EXCEPT !.stores = call.acc, !.isLoadingStores = FALSE]
    ELSE [v EXCEPT !.stores = call.acc,
                   !.error = "Failed to load document stores",
                   !.isLoadingStores = FALSE]

\* `setStores(fetchedStores)' after the await, `handleError(...)' in the
\* catch, `setIsLoadingStores(false)' in the finally.
LoadStoresOutcome(v, call) ==
    IF call.pc = "returned"
    THEN [v EXCEPT !.stores = call.acc, !.isLoadingStores = FALSE]
    ELSE [v EXCEPT !.error = "Failed to load document stores",
                   !.isLoadingStores = FALSE]

\* A handler's state updates reach the view only while the component that
\* rendered the handler is mounted; App's handleError works regardless.
Attached(call) == Mounted /\ ~call.unmounted

Apply(call, outcome) ==
    IF Attached(call) THEN outcome
    ELSE [view EXCEPT !.error = outcome.error]

loadStoresSettles(c) ==
    /\ calls[c].by = "loadStores" /\ Settled(calls[c])
    /\ view' = Apply(calls[c], LoadStoresOutcome(view, calls[c]))
    /\ calls' = [calls EXCEPT ![c] = IdleCall]
    /\ UNCHANGED <<ai, ops>>

\* App's clearError, the button of the error screen: `setError(null);
\* setView('dashboard')'.
clearError ==
    /\ renderContent(view) = "Application Error"
    /\ view' = [view EXCEPT !.error = "none", !.view = "dashboard",
                            !.chat = NoChat]
    /\ UNCHANGED <<ai, calls, ops>>

-----------------------------------------------------------------------------
(* ManagementView and its DocumentList: the handlers the user reaches       *)

\* The slot an activation takes: the lowest free one.  An event is handled
\* only between tasks: the continuation of a handler whose call has settled
\* runs before it.
Free(c) ==
    /\ calls[c].pc = "idle"
    /\ \A d \in CallIds : d < c => calls[d].pc # "idle"
    /\ \A d \in CallIds : calls[d].by # "none" => ~Settled(calls[d])

Names(records) == {records[i].name : i \in DOMAIN records}

\* What the backend's listings hold while the view is open.
A == CHOOSE r \in StoreRecords : r.name = StoreA /\ r.displayName # <<>>
B == CHOOSE r \in StoreRecords : r.name = StoreAB
Ax == CHOOSE r \in FileRecords : r.name = <<"a", "/", "x">>
Ay == CHOOSE r \in FileRecords : r.name = <<"a", "/", "y">>
Bx == CHOOSE r \in FileRecords : r.name = <<"a", "b", "/", "x">>

StoreListings == {<<A, B>>, <<B>>}
FileListings == {<<Ax, Ay, Bx>>, <<>>}

\* The document an ingestion into `ragStoreName' creates once its operation
\* has completed.
Uploaded(ragStoreName) ==
    [name |-> ragStoreName \o <<"/", "u">>, displayName |-> <<"u">>]

\* The one page a listing is answered with.  A backend that lists without
\* lag shows the document of the ingestion the handler has just awaited
\* exactly when that ingestion's operation completed.
Listings(call) ==
    IF call.fn = "listRagStores" THEN StoreListings
    ELSE IF call.op.handle # 0 /\ ops[call.op.handle] = "done"
    THEN {page \o <<Uploaded(call.arg)>> : page \in FileListings}
    ELSE FileListings

Listed(c) ==
    /\ IsListing(calls[c]) /\ calls[c].pc = "page"
    /\ \E page \in Listings(calls[c]) :
          calls' = [calls EXCEPT ![c] = Paged(@, page, FALSE)]
    /\ UNCHANGED <<ai, ops, view>>

\* `useEffect(..., [selectedStore, handleError])' once selectedStore has
\* become `store': loadDocuments up to its await, then setQueryResult(null).
SelectionEffect(v, store) ==
    IF store # <<>>
    THEN [v EXCEPT !.isLoadingDocuments = TRUE, !.documents = <<>>,
                   !.queryResult = NoQueryResult]
    ELSE [v EXCEPT !.documents = <<>>, !.queryResult = NoQueryResult]

\* `onSelect={setSelectedStore}' on a store of the list, and the effect the
\* new selection fires.
setSelectedStore(c) ==
    /\ Mounted /\ Free(c)
    /\ \E store \in Names(view.stores) :
          /\ store # view.selectedStore
          /\ view' = SelectionEffect([view EXCEPT !.selectedStore = store],
                                     store)
          /\ calls' = [calls EXCEPT ![c] =
                [Enter("listDocumentsInStore", store, "files.list", "page")
                    EXCEPT !.by = "loadDocuments"]]
    /\ UNCHANGED <<ai, ops>>

\* loadDocuments after its await: `setDocuments(fetchedDocs)', the catch,
\* `setIsLoadingDocuments(false)'.
LoadDocumentsOutcome(v, call) ==
    IF call.pc = "returned"
    THEN [v EXCEPT !.documents = call.acc, !.isLoadingDocuments = FALSE]
    ELSE [v EXCEPT !.error = "Failed to load documents",
                   !.isLoadingDocuments = FALSE]

loadDocumentsSettles(c) ==
    /\ calls[c].by = "loadDocuments" /\ Settled(calls[c])
    /\ view' = Apply(calls[c], LoadDocumentsOutcome(view, calls[c]))
    /\ calls' = [calls EXCEPT ![c] = IdleCall]
    /\ UNCHANGED <<ai, ops>>

-----------------------------------------------------------------------------
(* DocumentList: the upload dialog *)

\* DocumentList renders its controls only for a selected store.
Shown == Mounted /\ view.selectedStore # <<>>

FileNames == {<<"f">>}
Keys == {<<>>, <<" ">>, <<" ", "k", " ">>, <<"j">>}
Values == {<<>>, <<" ", "v", " ">>}
MaxRows == 2       \* rows of the metadata form

\* The button is disabled while a file is being processed.
handleUploadClick ==
    /\ Shown /\ view.processingFile = <<>>
    /\ ~view.isUploadModalOpen
    /\ view' = [view EXCEPT !.isUploadModalOpen = TRUE]
    /\ UNCHANGED <<ai, calls, ops>>

ModalClosed(v) ==
    [v EXCEPT !.isUploadModalOpen = FALSE, !.selectedFile = <<>>,
              !.metadata = <<EmptyRow>>]

handleModalClose ==
    /\ Shown /\ view.isUploadModalOpen
    /\ view' = ModalClosed(view)
    /\ UNCHANGED <<ai, calls, ops>>

handleFileChange ==
    /\ Shown /\ view.isUploadModalOpen
    /\ \E file \in FileNames : view' = [view EXCEPT !.selectedFile = file]
    /\ UNCHANGED <<ai, calls, ops>>

handleMetadataChange ==
    /\ Shown /\ view.isUploadModalOpen
    /\ \E index \in DOMAIN view.metadata :
          \/ \E text \in Keys :
                view' = [view EXCEPT !.metadata[index].key = text]
          \/ \E text \in Values :
                view' = [view EXCEPT !.metadata[index].value = text]
    /\ UNCHANGED <<ai, calls, ops>>

addMetadataRow ==
    /\ Shown /\ view.isUploadModalOpen
    /\ Len(view.metadata) < MaxRows
    /\ view' = [view EXCEPT !.metadata = Append(@, EmptyRow)]
    /\ UNCHANGED <<ai, calls, ops>>

removeMetadataRow ==
    /\ Shown /\ view.isUploadModalOpen
    /\ \E index \in DOMAIN view.metadata :
          view' = [view EXCEPT !.metadata =
                      [i \in 1..(Len(@) - 1) |->
                          IF i < index THEN @[i] ELSE @[i + 1]]]
    /\ UNCHANGED <<ai, calls, ops>>

\* String.prototype.trim over the characters of a string.
RECURSIVE trimStart(_)
trimStart(s) ==
    IF s # <<>> /\ Head(s) = " " THEN trimStart(Tail(s)) ELSE s

RECURSIVE trimEnd(_)
trimEnd(s) ==
    IF s # <<>> /\ Last(s) = " " THEN trimEnd(SubSeq(s, 1, Len(s) - 1))
    ELSE s

trim(s) == trimEnd(trimStart(s))

formattedMetadata_Untrimmed(metadata) ==
    LET kept == SelectSeq(metadata, LAMBDA m : m.key # <<>>) IN
    [i \in DOMAIN kept |->
        [key |-> kept[i].key, stringValue |-> kept[i].value]]

\* `metadata.filter(m => m.key.trim() !== '').map(m => ({ key:
\* m.key.trim(), stringValue: m.value.trim() }))'
formattedMetadata(metadata) ==
    LET kept == SelectSeq(metadata, LAMBDA m : trim(m.key) # <<>>) IN
    [i \in DOMAIN kept |->
        [key |-> trim(kept[i].key), stringValue |-> trim(kept[i].value)]]

\* handleUploadDocument up to its first await: `if (!selectedStore) return;
\* setProcessingFile(file.name)', then uploadDocument up to its submit,
\* which passes the metadata on as the request's customMetadata.
handleUploadDocument(c, v, file, metadata) ==
    IF v.selectedStore = <<>>
    THEN /\ view' = v
         /\ UNCHANGED calls
    ELSE /\ view' = [v EXCEPT !.processingFile = file]
         /\ calls' = [calls EXCEPT ![c] =
               [Enter("uploadDocument", v.selectedStore,
                      "uploadToFileSearchStore", "submit")
                   EXCEPT !.by = "handleUploadDocument",
                          !.metadata = metadata]]

\* `if (!selectedFile) return; ... onUpload(selectedFile,
\* formattedMetadata); handleModalClose()'
handleConfirmUpload(c) ==
    /\ Shown /\ view.isUploadModalOpen /\ Free(c)
    /\ IF view.selectedFile = <<>>
       THEN UNCHANGED <<calls, view>>
       ELSE handleUploadDocument(c, ModalClosed(view), view.selectedFile,
                                 formattedMetadata(view.metadata))
    /\ UNCHANGED <<ai, ops>>

Forget(h) == [g \in Handles |-> IF g = h THEN "none" ELSE ops[g]]

\* handleUploadDocument after uploadDocument has settled: the listing is
\* asked for when the upload returned; the catch and
\* `setProcessingFile(null)' when it was rejected.
uploadSettles(c) ==
    /\ calls[c].by = "handleUploadDocument"
    /\ calls[c].fn = "uploadDocument" /\ Settled(calls[c])
    /\ IF calls[c].pc = "returned"
       THEN /\ calls' = [calls EXCEPT ![c] =
                  [Enter("listDocumentsInStore", calls[c].arg, "files.list",
                         "page")
                      EXCEPT !.by = "handleUploadDocument",
                             !.op = calls[c].op,
                             !.unmounted = calls[c].unmounted]]
            /\ UNCHANGED <<view, ops>>
       ELSE /\ view' = Apply(calls[c],
                             [view EXCEPT !.error = "Failed to upload",
                                          !.processingFile = <<>>])
            /\ calls' = [calls EXCEPT ![c] = IdleCall]
            /\ ops' = Forget(calls[c].op.handle)
    /\ UNCHANGED ai

\* ... and after its listing has settled: `setDocuments(fetchedDocs)' or
\* the catch, then `setProcessingFile(null)'.
RelistOutcome(v, call) ==
    IF call.pc = "returned"
    THEN [v EXCEPT !.documents = call.acc, !.processingFile = <<>>]
    ELSE [v EXCEPT !.error = "Failed to upload", !.processingFile = <<>>]

relistSettles(c) ==
    /\ calls[c].by = "handleUploadDocument"
    /\ calls[c].fn = "listDocumentsInStore" /\ Settled(calls[c])
    /\ view' = Apply(calls[c], RelistOutcome(view, calls[c]))
    /\ calls' = [calls EXCEPT ![c] = IdleCall]
    /\ ops' = Forget(calls[c].op.handle)
    /\ UNCHANGED ai

-----------------------------------------------------------------------------
(* ManagementView: query, deletions *)

\* handleQuery up to its await: `if (!selectedStore) return;
\* setIsQuerying(true); setQueryResult(null)', then fileSearch with the
\* view's language.
handleQuery(c) ==
    /\ Mounted /\ Free(c)
    /\ IF view.selectedStore = <<>>
       THEN UNCHANGED <<calls, view>>
       ELSE /\ view' = [view EXCEPT !.isQuerying = TRUE,
                                    !.queryResult = NoQueryResult]
            /\ calls' = [calls EXCEPT ![c] =
                  [Generate(Enter("fileSearch", view.selectedStore,
                                  "models.generateContent", "query"),
                            view.language,
                            LanguageName(view.language,
                                         "the user's query language"),
                            view.selectedStore)
                      EXCEPT !.by = "handleQuery"]]
    /\ UNCHANGED <<ai, ops>>

\* `setQueryResult(result)' or the catch, then `setIsQuerying(false)'.
QueryShown(v, call) ==
    IF call.pc = "returned"
    THEN [v EXCEPT !.queryResult =
                       [null |-> FALSE, res |-> call.res, of |-> call.arg],
                   !.isQuerying = FALSE]
    ELSE [v EXCEPT !.error = "Failed to execute query",
                   !.isQuerying = FALSE]

querySettles(c) ==
    /\ calls[c].by = "handleQuery" /\ Settled(calls[c])
    /\ view' = Apply(calls[c], QueryShown(view, calls[c]))
    /\ calls' = [calls EXCEPT ![c] = IdleCall]
    /\ UNCHANGED <<ai, ops>>

\* handleDeleteDocument on a row of the list up to its await: `if
\* (!selectedStore) return; if (window.confirm(...))'.
handleDeleteDocument(c) ==
    /\ Mounted /\ Free(c)
    /\ \E docName \in Names(view.documents), confirm \in BOOLEAN :
          IF view.selectedStore = <<>> \/ ~confirm
          THEN UNCHANGED calls
          ELSE calls' = [calls EXCEPT ![c] =
                  [Enter("deleteDocument", docName, "files.delete", "delete")
                      EXCEPT !.by = "handleDeleteDocument"]]
    /\ UNCHANGED <<ai, ops, view>>

Removed_KeepFirst(docs, docName) ==
    IF docs # <<>> /\ Head(docs).name = docName THEN Tail(docs) ELSE docs

\* `docs.filter(d => d.name !== docName)'
Removed(docs, docName) == SelectSeq(docs, LAMBDA d : d.name # docName)

\* `setDocuments(docs => docs.filter(...))' on the documents as they are
\* when the update is applied, or the catch.
DocumentDeleted(v, call) ==
    IF call.pc = "returned"
    THEN [v EXCEPT !.documents = Removed(@, call.arg)]
    ELSE [v EXCEPT !.error = "Failed to delete document"]

deleteDocumentSettles(c) ==
    /\ calls[c].by = "handleDeleteDocument" /\ Settled(calls[c])
    /\ view' = Apply(calls[c], DocumentDeleted(view, calls[c]))
    /\ calls' = [calls EXCEPT ![c] = IdleCall]
    /\ UNCHANGED <<ai, ops>>

\* handleDeleteStore on a store of the list up to its await; the handler
\* keeps the selectedStore it was rendered with.
handleDeleteStore(c) ==
    /\ Mounted /\ Free(c)
    /\ \E storeName \in Names(view.stores), confirm \in BOOLEAN :
          IF ~confirm
          THEN UNCHANGED calls
          ELSE calls' = [calls EXCEPT ![c] =
                  [Enter("deleteRagStore", storeName,
                         "fileSearchStores.delete", "delete")
                      EXCEPT !.by = "handleDeleteStore",
                             !.sel = view.selectedStore,
                             !.storeName = storeName]]
    /\ UNCHANGED <<ai, ops, view>>

\* `if (selectedStore?.name === storeName) setSelectedStore(null)' on the
\* handler's own selectedStore; the effect fires when the selection has
\* changed by it.
Deselected(v, call) ==
    IF call.sel = call.storeName /\ v.selectedStore # <<>>
    THEN SelectionEffect([v EXCEPT !.selectedStore = <<>>], <<>>)
    ELSE v

\* After deleteRagStore has settled: the deselection and `await
\* loadStores()' up to its await, or the catch.
deleteStoreSettles(c) ==
    /\ calls[c].by = "handleDeleteStore"
    /\ calls[c].fn = "deleteRagStore" /\ Settled(calls[c])
    /\ IF calls[c].pc = "returned"
       THEN /\ view' = Apply(calls[c],
                   [Deselected(view, calls[c])
                       EXCEPT !.isLoadingStores = TRUE])
            /\ calls' = [calls EXCEPT ![c] =
                  [Started("listRagStores", <<>>, "fileSearchStores.list",
                           "page")
                      EXCEPT !.by = "handleDeleteStore",
                             !.sel = calls[c].sel,
                             !.storeName = calls[c].storeName,
                             !.unmounted = calls[c].unmounted]]
       ELSE /\ view' = Apply(calls[c],
                   [view EXCEPT !.error = "Failed to delete store"])
            /\ calls' = [calls EXCEPT ![c] = IdleCall]
    /\ ai' = (ai \/ calls[c].pc = "returned")
    /\ UNCHANGED ops

\* ... and after the loadStores it awaits has settled.
reloadSettles(c) ==
    /\ calls[c].by = "handleDeleteStore"
    /\ calls[c].fn = "listRagStores" /\ Settled(calls[c])
    /\ view' = Apply(calls[c], LoadStoresOutcome(view, calls[c]))
    /\ calls' = [calls EXCEPT ![c] = IdleCall]
    /\ UNCHANGED <<ai, ops>>

\* App renders a new ManagementView: the user went to another view and came
\* back, or left the error screen and opened the management view again.
\* The handlers of the former one go on; the mount effect runs loadStores.
Unmounted(call) ==
    IF call.pc = "idle" THEN call ELSE [call EXCEPT !.unmounted = TRUE]

remount(c) ==
    /\ Free(c)
    /\ view' = MountedView
    /\ ai' = TRUE
    /\ calls' = [d \in CallIds |->
                   IF d = c
                   THEN [Started("listRagStores", <<>>,
                                 "fileSearchStores.list", "page")
                            EXCEPT !.by = "loadStores"]
                   ELSE Unmounted(calls[d])]
    /\ UNCHANGED ops

\* The sidebar's setView, which is rendered next to every screen.  A view
\* that is not rendered has no state: opening the management view mounts
\* a new ManagementView, and the handlers of an earlier one go on
\* unmounted.
setView ==
    /\ \E v \in Views :
          /\ v # view.view
          /\ view' = [MountedView EXCEPT !.view = v, !.error = view.error]
    /\ calls' = [d \in CallIds |-> Unmounted(calls[d])]
    /\ UNCHANGED <<ai, ops>>

\* ChatInterface's effect on [suggestions], together with the cleanup of
\* its previous run: `return () => clearInterval(intervalId)'.
Cleanup_NoClear(intervals) == intervals

Cleanup(intervals) == {}

SuggestionEffect(ch, suggestions) ==
    IF Len(suggestions) = 0
    THEN [ch EXCEPT !.currentSuggestion = "",
                    !.intervals = Cleanup(@)]
    ELSE [ch EXCEPT !.currentSuggestion = suggestions[1],
                    !.intervals = Cleanup(@) \cup
                       {[suggestions |-> suggestions, suggestionIndex |-> 0]}]

\* ChatInterface is on the screen.
ChatRendered == renderContent(view) = "ChatbotView" /\ view.chat.mounted

\* The chat view renders ChatInterface: `useState' initial values, then the
\* effect's first run.
mountChat ==
    /\ renderContent(view) = "ChatbotView" /\ ~view.chat.mounted
    /\ \E suggestions \in SuggestionLists :
          view' = [view EXCEPT !.chat =
                      SuggestionEffect([NoChat EXCEPT !.mounted = TRUE,
                                           !.suggestions = suggestions],
                                       suggestions)]
    /\ UNCHANGED <<ai, calls, ops>>

\* The parent passes another suggestions array: the effect's cleanup, then
\* the effect.
setSuggestions ==
    /\ ChatRendered
    /\ \E suggestions \in SuggestionLists :
          view' = [view EXCEPT !.chat =
                      SuggestionEffect([@ EXCEPT !.suggestions = suggestions,
                                                 !.ref = ~@],
                                       suggestions)]
    /\ UNCHANGED <<ai, calls, ops>>

\* The callback of a running interval, every 5000 ms.
tick ==
    /\ ChatRendered
    /\ \E t \in view.chat.intervals :
          LET suggestionIndex ==
                  (t.suggestionIndex + 1) % Len(t.suggestions)
          IN  view' = [view EXCEPT !.chat =
                 [@ EXCEPT !.currentSuggestion =
                               t.suggestions[suggestionIndex + 1],
                           !.intervals = (@ \ {t}) \cup
                               {[t EXCEPT !.suggestionIndex =
                                              suggestionIndex]}]]
    /\ UNCHANGED <<ai, calls, ops>>

\* `Try: "..."', rendered for `!isQueryLoading && currentSuggestion'.
suggestionClick ==
    /\ ChatRendered
    /\ ~view.chat.isQueryLoading /\ view.chat.currentSuggestion # ""
    /\ view' = [view EXCEPT !.chat.query = view.chat.currentSuggestion]
    /\ UNCHANGED <<ai, calls, ops>>

\* The parent's isQueryLoading prop.
setIsQueryLoading ==
    /\ ChatRendered
    /\ view' = [view EXCEPT !.chat.isQueryLoading = ~@]
    /\ UNCHANGED <<ai, calls, ops>>

\* The parent stops rendering ChatInterface: the effect's cleanup runs and
\* the state is gone.
unmountChat ==
    /\ ChatRendered
    /\ view' = [view EXCEPT !.chat =
                   [NoChat EXCEPT !.intervals = Cleanup(view.chat.intervals)]]
    /\ UNCHANGED <<ai, calls, ops>>

-----------------------------------------------------------------------------

\* App as constructed: `useState<View>('dashboard')', `useState(null)'.
InitApp ==
    /\ ai = FALSE
    /\ calls = [c \in CallIds |-> IdleCall]
    /\ ops = [h \in Handles |-> "none"]
    /\ view = [MountedView EXCEPT !.view = "dashboard"]

\* The state in which ManagementView has just been mounted, before its
\* effects run.
Init ==
    /\ ai = FALSE
    /\ calls = [c \in CallIds |-> IdleCall]
    /\ ops = [h \in Handles |-> "none"]
    /\ view = MountedView

(* Ingestion: concurrent uploadDocument calls against the backend's         *)
(* operation table.                                                         *)
NextPoll ==
    \/ Initialize
    \/ \E c \in CallIds : uploadDocument(c)
    \/ \E c \in CallIds : SubmitResolves(c)
    \/ \E c \in CallIds : SubmitRejects(c)
    \/ \E c \in CallIds : DelayElapses(c)
    \/ \E c \in CallIds : GetResolves(c)
    \/ \E c \in CallIds : GetRejects(c)
    \/ \E h \in Handles : BackendCompletes(h)
    \/ \E h \in Handles : BackendFails(h)

SpecPoll == Init /\ [][NextPoll]_vars

(* The service as one sequential caller uses it: a call at a time, through  *)
(* every exported function, before and after initialize.                    *)
\* Two ingestions in flight together, each into either store.
Pair == {1, 2}

NextPair ==
    \/ Initialize
    \/ \E c \in Pair :
          \/ \E store \in StoreNames : UploadCall(c, "uploadDocument", store)
          \/ SubmitResolves(c)
          \/ SubmitRejects(c)
          \/ DelayElapses(c)
          \/ GetResolves(c)
          \/ GetRejects(c)
    \/ \E h \in Handles : BackendCompletes(h) \/ BackendFails(h)

SpecPair == Init /\ [][NextPair]_vars

\* The same two ingestions when no backend request is rejected.  Every
\* request is answered and every timer fires: a resolution that stays
\* possible is eventually delivered.  Nothing makes the backend finish an
\* operation.
NextPairLive ==
    \/ Initialize
    \/ \E c \in Pair :
          \/ \E store \in StoreNames : UploadCall(c, "uploadDocument", store)
          \/ SubmitResolves(c)
          \/ DelayElapses(c)
          \/ GetResolves(c)
    \/ \E h \in Handles : BackendCompletes(h) \/ BackendFails(h)

PollFairness ==
    \A c \in Pair :
        /\ WF_vars(SubmitResolves(c))
        /\ WF_vars(DelayElapses(c))
        /\ WF_vars(GetResolves(c))

SpecPairLive == Init /\ [][NextPairLive]_vars /\ PollFairness

\* An ingestion, a query and a store creation in flight together in any
\* pairing, with initialize called at any moment.
NextMix ==
    \/ Initialize
    \/ \E c \in Pair :
          \/ uploadDocument(c)
          \/ SubmitResolves(c)
          \/ SubmitRejects(c)
          \/ DelayElapses(c)
          \/ GetResolves(c)
          \/ GetRejects(c)
          \/ fileSearch(c)
          \/ QueryResolves(c)
          \/ QueryRejects(c)
          \/ createRagStore(c)
          \/ CreateResolves(c)
          \/ CreateRejects(c)
    \/ \E h \in Handles : BackendCompletes(h) \/ BackendFails(h)

SpecMix == Init /\ [][NextMix]_vars

Caller == CHOOSE c \in CallIds : \A d \in CallIds : c <= d

Next ==
    \/ Initialize
    \/ listRagStores(Caller)
    \/ listDocumentsInStore(Caller)
    \/ PageResolves(Caller)
    \/ PageRejects(Caller)
    \/ createRagStore(Caller)
    \/ CreateResolves(Caller)
    \/ CreateRejects(Caller)
    \/ uploadDocument(Caller)
    \/ uploadToRagStore(Caller)
    \/ SubmitResolves(Caller)
    \/ SubmitRejects(Caller)
    \/ DelayElapses(Caller)
    \/ GetResolves(Caller)
    \/ GetRejects(Caller)
    \/ \E h \in Handles : BackendCompletes(h)
    \/ \E h \in Handles : BackendFails(h)
    \/ fileSearch(Caller)
    \/ QueryResolves(Caller)
    \/ QueryRejects(Caller)
    \/ generateExampleQuestions(Caller)
    \/ GenResolves(Caller)
    \/ GenRejects(Caller)
    \/ deleteRagStore(Caller)
    \/ deleteDocument(Caller)
    \/ DeleteResolves(Caller)
    \/ DeleteRejects(Caller)
    \/ Release(Caller)

Spec == Init /\ [][Next]_vars

(* ManagementView's store list: loadStores on mount and on refresh, next to *)
(* a document listing, over a backend whose pages may fail to arrive.       *)
NextView ==
    \/ loadStores(Caller)
    \/ loadStoresSettles(Caller)
    \/ listDocumentsInStore(Caller)
    \/ PageResolves(Caller)
    \/ PageRejects(Caller)
    \/ Release(Caller)
    \/ clearError

SpecView == Init /\ [][NextView]_vars

(* App around ManagementView: the sidebar, the error screen and the loads   *)
(* of two handlers whose failures reach handleError.                        *)
NextApp ==
    \/ setView
    \/ clearError
    \/ \E c \in Pair :
          \/ Free(c) /\ loadStores(c)
          \/ Listed(c)
          \/ PageRejects(c)
          \/ loadStoresSettles(c)
          \/ setSelectedStore(c)
          \/ loadDocumentsSettles(c)

SpecApp == InitApp /\ [][NextApp]_vars

(* ChatInterface under the chat view: the suggestions prop, the interval of  *)
(* its effect and the suggestion button.                                    *)
NextChat ==
    \/ setView
    \/ mountChat
    \/ setSuggestions
    \/ tick
    \/ suggestionClick
    \/ setIsQueryLoading
    \/ unmountChat

SpecChat == InitApp /\ [][NextChat]_vars

(* The upload dialog of DocumentList over one mounted ManagementView: the   *)
(* form, the ingestion it starts and the listing that follows it.           *)
NextDialog ==
    \/ loadStores(Caller)
    \/ Listed(Caller)
    \/ PageRejects(Caller)
    \/ loadStoresSettles(Caller)
    \/ setSelectedStore(Caller)
    \/ loadDocumentsSettles(Caller)
    \/ handleUploadClick
    \/ handleModalClose
    \/ handleFileChange
    \/ handleMetadataChange
    \/ addMetadataRow
    \/ removeMetadataRow
    \/ handleConfirmUpload(Caller)
    \/ SubmitResolves(Caller)
    \/ SubmitRejects(Caller)
    \/ DelayElapses(Caller)
    \/ GetResolves(Caller)
    \/ GetRejects(Caller)
    \/ \E h \in Handles : BackendCompletes(h) \/ BackendFails(h)
    \/ uploadSettles(Caller)
    \/ relistSettles(Caller)

SpecDialog == Init /\ [][NextDialog]_vars

(* ManagementView with two handlers in flight together: selections and    *)
(* queries against each other and against refreshes of the store list.      *)
NextUI ==
    \E c \in Pair :
        \/ Free(c) /\ loadStores(c)
        \/ Listed(c)
        \/ PageRejects(c)
        \/ loadStoresSettles(c)
        \/ setSelectedStore(c)
        \/ loadDocumentsSettles(c)
        \/ handleQuery(c)
        \/ QueryResolves(c)
        \/ QueryRejects(c)
        \/ querySettles(c)

SpecUI == Init /\ [][NextUI]_vars

(* Deletions of documents and of stores against selections.                 *)
NextDeletions ==
    \E c \in Pair :
        \/ Free(c) /\ loadStores(c)
        \/ Listed(c)
        \/ PageRejects(c)
        \/ loadStoresSettles(c)
        \/ setSelectedStore(c)
        \/ loadDocumentsSettles(c)
        \/ handleDeleteDocument(c)
        \/ handleDeleteStore(c)
        \/ DeleteResolves(c)
        \/ DeleteRejects(c)
        \/ deleteDocumentSettles(c)
        \/ deleteStoreSettles(c)
        \/ reloadSettles(c)

SpecDeletions == Init /\ [][NextDeletions]_vars

(* Uploads from the dialog while App may mount a new ManagementView; no     *)
(* backend request is rejected here.                                        *)
NextRemount ==
    \/ \E c \in Pair :
          \/ Free(c) /\ loadStores(c)
          \/ Listed(c)
          \/ loadStoresSettles(c)
          \/ setSelectedStore(c)
          \/ loadDocumentsSettles(c)
          \/ handleConfirmUpload(c)
          \/ SubmitResolves(c)
          \/ DelayElapses(c)
          \/ GetResolves(c)
          \/ uploadSettles(c)
          \/ relistSettles(c)
          \/ remount(c)
    \/ handleUploadClick
    \/ handleModalClose
    \/ handleFileChange
    \/ \E h \in Handles : BackendCompletes(h)

SpecRemount == Init /\ [][NextRemount]_vars

-----------------------------------------------------------------------------
(* Claims about the poll loop *)

IsUpload(call) == call.fn \in {"uploadDocument", "uploadToRagStore"}

RECURSIVE NotDone(_)
NotDone(obs) ==
    IF obs = <<>> THEN 0
    ELSE (IF Head(obs).done THEN 0 ELSE 1) + NotDone(Tail(obs))

\* C1: when the submit hands back a not-done operation and k status fetches
\* then observe not-done before one observes done, the call has returned
\* with exactly k+1 fetches issued, every one of them observed, the last
\* observation being the done one.
C1_FetchesAreKPlusOne ==
    \A c \in CallIds :
        LET call == calls[c] IN
        (IsUpload(call) /\ call.pc = "returned" /\ ~call.obs[1].done) =>
            LET k == NotDone(Tail(call.obs)) IN
            /\ Fetches(call) = k + 1
            /\ Len(call.obs) = Fetches(call) + 1
            /\ Last(call.obs).done
            /\ \A i \in 1..(Len(call.obs) - 1) : ~call.obs[i].done

C1_Witness ==
    \E c \in CallIds :
        /\ calls[c].fn = "uploadDocument"
        /\ calls[c].pc = "returned"
        /\ ~calls[c].obs[1].done
        /\ NotDone(Tail(calls[c].obs)) = 2
        /\ Fetches(calls[c]) = 3

\* C2: a call that has observed an operation carrying an error has ended by
\* raising IngestionFailed; it has not returned successfully.
C2_FailedOperationRaises ==
    \A c \in CallIds :
        (IsUpload(calls[c]) /\ calls[c].op.error) =>
            /\ calls[c].pc = "failed"
            /\ calls[c].err = "IngestionFailed"

\* C3: once a submit or a status fetch of an ingestion call has been
\* rejected, the call has failed with that transport error, the rejected
\* request is the last thing it issued, and the call takes no further step.
C3_RejectedIsFinal ==
    /\ [](\A c \in CallIds :
            (IsUpload(calls[c]) /\ Count(calls[c].trace, "rejected") > 0) =>
                /\ calls[c].pc = "failed"
                /\ calls[c].err = "TransportError"
                /\ Count(calls[c].trace, "rejected") = 1
                /\ Last(calls[c].trace) = "rejected")
    /\ [][\A c \in CallIds :
            (IsUpload(calls[c]) /\ calls[c].err = "TransportError") =>
                /\ calls'[c].pc = calls[c].pc
                /\ calls'[c].trace = calls[c].trace]_vars

C3_Witness ==
    \E c \in CallIds :
        /\ calls[c].fn = "uploadDocument"
        /\ calls[c].err = "TransportError"
        /\ Fetches(calls[c]) = 2
        /\ Sleeps(calls[c]) = 2

-----------------------------------------------------------------------------
(* Claims about the initialization guard *)

\* C4: a call of any service function made while `ai' is undefined ends at
\* once, rejected with "Gemini AI not initialized" and with no backend
\* request issued; whenever a call issues a request, initialize has run.
C4_NoRequestBeforeInitialize ==
    /\ [](\A c \in CallIds :
            /\ calls[c].trace # <<>> => ai
            /\ calls[c].err = "Gemini AI not initialized" =>
                    calls[c].pc = "failed" /\ calls[c].trace = <<>>)
    /\ [][\A c \in CallIds :
            /\ (~ai /\ calls[c].pc = "idle" /\ calls'[c].pc # "idle") =>
                    /\ calls'[c].pc = "failed"
                    /\ calls'[c].err = "Gemini AI not initialized"
                    /\ calls'[c].trace = <<>>
            /\ calls'[c].trace # calls[c].trace /\ calls'[c].trace # <<>>
                    => ai]_vars

C4_Witness ==
    /\ ~ai
    /\ calls[Caller].fn = "generateExampleQuestions"
    /\ calls[Caller].pc = "failed"
    /\ calls[Caller].err = "Gemini AI not initialized"

-----------------------------------------------------------------------------
(* Claims about generateExampleQuestions *)

IsGen(call) == call.fn = "generateExampleQuestions"

\* The error paths of a call that reached the backend: the request failed,
\* the response has no text, the text is not JSON, the payload is not an
\* array of strings or of topic objects, or a topic array holds a null.
C5_ErrorPath(call) ==
    \/ Count(call.trace, "rejected") > 0
    \/ /\ call.reply > 0
       /\ LET r == GenReplies[call.reply] IN
          \/ ~r.hasText
          \/ ~r.parses
          \/ r.data.t # "arr"
          \/ /\ r.data.items # <<>>
             /\ r.data.items[1].t \notin {"str", "obj"}
          \/ /\ r.data.items # <<>>
             /\ r.data.items[1].t = "obj"
             /\ \/ ~r.data.items[1].has
                \/ r.data.items[1].questions.t # "arr"
                \/ \E i \in DOMAIN r.data.items : r.data.items[i].t = "null"

\* C5 as stated: a call of generateExampleQuestions never ends by raising.
C5_NeverRaises ==
    \A c \in CallIds : IsGen(calls[c]) => calls[c].pc # "failed"

\* C5 amended: a call of generateExampleQuestions raises only through the
\* initialization guard, before any backend request; a call that reached
\* the backend never raises, and on every error path it has returned the
\* empty sequence.
C5_RaisesOnlyUninitialized ==
    \A c \in CallIds :
        IsGen(calls[c]) =>
            /\ calls[c].pc = "failed" =>
                    /\ calls[c].err = "Gemini AI not initialized"
                    /\ calls[c].trace = <<>>
            /\ (calls[c].pc # "generate" /\ C5_ErrorPath(calls[c])) =>
                    calls[c].pc = "returned" /\ calls[c].out = <<>>

C5_Witness ==
    /\ IsGen(calls[Caller])
    /\ calls[Caller].pc = "returned"
    /\ calls[Caller].reply > 0
    /\ GenReplies[calls[Caller].reply].parses
    /\ GenReplies[calls[Caller].reply].data.t = "arr"
    /\ GenReplies[calls[Caller].reply].data.items # <<>>
    /\ GenReplies[calls[Caller].reply].data.items[1].t = "obj"
    /\ \E i \in DOMAIN GenReplies[calls[Caller].reply].data.items :
          GenReplies[calls[Caller].reply].data.items[i].t = "null"
    /\ calls[Caller].out = <<>>

-----------------------------------------------------------------------------
(* Claims about the listings *)

\* A store record is well formed when it carries the two fields RagStore
\* requires, name and displayName.
C6_WellFormedStore(r) == Len(r.name) > 0 /\ Len(r.displayName) > 0

\* A document is in the scope of store S when its name is S, then "/",
\* then anything.
C7_InStore(r, S) ==
    /\ Len(r.name) > Len(S)
    /\ \A i \in 1..Len(S) : r.name[i] = S[i]
    /\ r.name[Len(S) + 1] = "/"

RECURSIVE C6_Expected(_, _, _)
\* The records of the pages, page after page and in page order, without
\* the malformed (stores) or out-of-scope (documents) ones.
C6_Expected(fn, S, pages) ==
    IF pages = <<>> THEN <<>>
    ELSE SelectSeq(Head(pages),
                   LAMBDA r : IF fn = "listRagStores" THEN C6_WellFormedStore(r)
                              ELSE C7_InStore(r, S))
         \o C6_Expected(fn, S, Tail(pages))

Elements(s) == {s[i] : i \in DOMAIN s}

\* C7: listDocumentsInStore(S) returns all and only the listed documents
\* whose name starts with S followed by "/": no document of a store whose
\* name only begins with S, and no document without a name.
C7_OnlyDocumentsOfStore ==
    \A c \in CallIds :
        (calls[c].fn = "listDocumentsInStore" /\ calls[c].pc = "returned") =>
            /\ \A r \in Elements(Flatten(calls[c].pages)) :
                    r \in Elements(calls[c].acc) <=> C7_InStore(r, calls[c].arg)
            /\ Elements(calls[c].acc) \subseteq Elements(Flatten(calls[c].pages))

C7_Witness ==
    /\ calls[Caller].fn = "listDocumentsInStore"
    /\ calls[Caller].pc = "returned"
    /\ calls[Caller].arg = StoreA
    /\ \E r \in Elements(Flatten(calls[Caller].pages)) :
          StartsWith(r.name, StoreAB \o <<"/">>)
    /\ \E r \in Elements(Flatten(calls[Caller].pages)) : r.name = <<>>
    /\ Len(calls[Caller].acc) = 1

\* The backend lists each of its entities once.
C8_ListedOnce(pages) ==
    \A r \in Elements(Flatten(pages)) : Count(Flatten(pages), r) = 1

\* C8: over a backend that lists each entity once, the result of
\* listRagStores holds every listed store that has a name exactly once,
\* whatever its display name, and the result of listDocumentsInStore(S)
\* holds every listed document of S exactly once.
C8_NothingOmittedOrDuplicated ==
    \A c \in CallIds :
        (IsListing(calls[c]) /\ calls[c].pc = "returned"
         /\ C8_ListedOnce(calls[c].pages)) =>
            \A r \in Elements(Flatten(calls[c].pages)) :
                (IF calls[c].fn = "listRagStores" THEN Len(r.name) > 0
                 ELSE C7_InStore(r, calls[c].arg))
                    => Count(calls[c].acc, r) = 1

\* C9: a listing call that had a page rejected has failed with that error;
\* and the step in which loadStores takes a failed listing leaves the
\* stores state as it was and reports the error.
C9_FailedListingIsDiscarded ==
    /\ [](\A c \in CallIds :
            (IsListing(calls[c]) /\ Count(calls[c].trace, "rejected") > 0) =>
                calls[c].pc = "failed" /\ calls[c].err = "TransportError")
    /\ [][\A c \in CallIds :
            (calls[c].by = "loadStores" /\ calls[c].pc = "failed"
             /\ calls'[c].pc = "idle") =>
                /\ view'.stores = view.stores
                /\ view'.error = "Failed to load document stores"]_vars

\* A load that failed on its second page, after a first page with a
\* well-formed store, over a store list loaded earlier.
C9_Witness ==
    /\ calls[Caller].by = "loadStores"
    /\ calls[Caller].pc = "failed"
    /\ Len(calls[Caller].pages) = 1
    /\ calls[Caller].acc # <<>>
    /\ view.stores # <<>>
    /\ view.stores # calls[Caller].acc

-----------------------------------------------------------------------------
(* Claims about createRagStore *)

\* C10: a createRagStore call that got the backend's answer has returned
\* the name the answer carries when it carries one, and has raised "name is
\* missing" when it carries none; it never returns an empty name.
C10_CreateReturnsAssignedName ==
    \A c \in CallIds :
        (calls[c].fn = "createRagStore" /\ calls[c].reply > 0) =>
            IF Len(CreateReplies[calls[c].reply]) > 0
            THEN /\ calls[c].pc = "returned"
                 /\ calls[c].name = CreateReplies[calls[c].reply]
            ELSE /\ calls[c].pc = "failed"
                 /\ calls[c].err = "Failed to create RAG store: name is missing."
                 /\ calls[c].name = <<>>

C10_Witness ==
    /\ calls[Caller].fn = "createRagStore"
    /\ calls[Caller].reply > 0
    /\ CreateReplies[calls[Caller].reply] = <<>>
    /\ calls[Caller].pc = "failed"

-----------------------------------------------------------------------------
(* Claims about the timing of the poll loop *)

\* The trace of an ingestion call is its submit followed by sleeps and
\* fetches in turn: a fetch comes right after a sleep, a sleep right after
\* the submit or a fetch, and nothing but a fetch follows a sleep.
C12_Alternates(trace) ==
    \A i \in DOMAIN trace :
        /\ trace[i] = "operations.get" => (i > 1 /\ trace[i - 1] = "delay")
        /\ trace[i] = "delay" =>
              /\ i > 1
              /\ trace[i - 1] \in {"uploadToFileSearchStore", "operations.get"}
              /\ i < Len(trace) => trace[i + 1] = "operations.get"

\* C12: in every ingestion call each status fetch comes right after exactly
\* one sleep of 3000 ms, that sleep having been taken on the previous
\* not-done observation (one sleep per not-done observation, sleeps and
\* fetches alternating); the first done observation is the last one and
\* ends the call, and a call that has ended issues no further sleep or
\* fetch.
C12_SleepThenFetch ==
    /\ [](\A c \in CallIds :
            LET call == calls[c] IN
            IsUpload(call) =>
                /\ C12_Alternates(call.trace)
                /\ Sleeps(call) = NotDone(call.obs)
                /\ Fetches(call) \in {Sleeps(call), Sleeps(call) - 1}
                /\ call.slept = PollIntervalMs * Sleeps(call)
                /\ \A i \in 1..(Len(call.obs) - 1) : ~call.obs[i].done
                /\ (call.obs # <<>> /\ Last(call.obs).done) =>
                      call.pc = "returned")
    /\ [][\A c \in CallIds :
            (IsUpload(calls[c]) /\ calls[c].pc = "returned") =>
                /\ calls'[c].pc = "returned"
                /\ calls'[c].trace = calls[c].trace]_vars

C12_Witness ==
    \E c \in CallIds :
        /\ calls[c].fn = "uploadDocument"
        /\ calls[c].pc = "returned"
        /\ Sleeps(calls[c]) = 2
        /\ Fetches(calls[c]) = 2
        /\ calls[c].slept = 6000

-----------------------------------------------------------------------------
(* Claims about concurrent ingestions *)

\* C13: of two uploadDocument calls in flight together, into the same store
\* or into different ones, each polls the operation its own submit created
\* (every snapshot it is handed is of that one handle, no two calls hold
\* the same handle, and what a call has observed as done or failed is so in
\* the backend for its own operation); its fetches are as many as its own
\* observations ask for; and a step of one call, its return and its failure
\* included, leaves the other call as it was.
C13_OwnPollLoop ==
    /\ [](\A c \in Pair :
            LET call == calls[c] IN
            (IsUpload(call) /\ call.obs # <<>>) =>
                /\ \A i \in DOMAIN call.obs :
                      call.obs[i].handle = call.op.handle
                /\ \A d \in Pair \ {c} :
                      calls[d].obs # <<>> =>
                          calls[d].op.handle # call.op.handle
                /\ call.op.done =>
                      ops[call.op.handle] \in {"done", "failed"}
                /\ call.op.error => ops[call.op.handle] = "failed"
                /\ Fetches(call) \in {Len(call.obs) - 1, Len(call.obs)}
                /\ Len(call.obs) = NotDone(call.obs)
                                     + (IF call.pc = "returned" THEN 1 ELSE 0))
    /\ [][\A c \in Pair : \A d \in Pair \ {c} :
            calls'[c] # calls[c] => calls'[d] = calls[d]]_vars

\* One call has returned on its submit's answer while the other, into
\* another store, is in its second round of the loop.
C13_Witness ==
    /\ calls[1].fn = "uploadDocument"
    /\ calls[2].fn = "uploadDocument"
    /\ calls[1].arg # calls[2].arg
    /\ calls[1].pc = "returned"
    /\ Fetches(calls[1]) = 0
    /\ calls[2].pc = "get"
    /\ Fetches(calls[2]) = 2

-----------------------------------------------------------------------------
(* Claims about the termination of the poll loop *)

InLoop(call) == IsUpload(call) /\ call.pc \in {"delay", "get"}

\* C11: when no request is rejected, requests are answered and timers fire,
\* (a) a call in its poll loop whose operation the backend has finished
\* eventually returns; (b) a call leaves the loop only by the step that
\* hands it a done snapshot of its own finished operation, whatever the
\* number of not-done observations before; (c) no call in flight ever
\* fails (a call fails only on the guard, before its submit).
C11_EndsOnlyOnDone ==
    /\ \A c \in Pair :
          (InLoop(calls[c]) /\ ops[calls[c].op.handle] \in {"done", "failed"})
              ~> (calls[c].pc = "returned")
    /\ [][\A c \in Pair :
            (InLoop(calls[c]) /\ calls'[c].pc # calls[c].pc) =>
                \/ calls'[c].pc \in {"delay", "get"}
                \/ /\ calls'[c].pc = "returned"
                   /\ calls'[c].op.done
                   /\ ops[calls[c].op.handle] \in {"done", "failed"}]_vars
    /\ [](\A c \in Pair :
            calls[c].pc = "failed" =>
                (calls[c].trace = <<>>
                   /\ calls[c].err = "Gemini AI not initialized"))

\* A call still in the loop after as many not-done observations as are
\* explored, its operation still running.
C11_Witness ==
    \E c \in Pair :
        /\ InLoop(calls[c])
        /\ NotDone(calls[c].obs) = MaxPolls
        /\ ops[calls[c].op.handle] = "running"

-----------------------------------------------------------------------------
(* Claims about interference between calls *)

OperationSnapshots(H) ==
    { [handle |-> h, done |-> st[1], error |-> st[2]] :
        h \in H, st \in {<<FALSE, FALSE>>, <<TRUE, FALSE>>, <<TRUE, TRUE>>} }

\* What a suspended call can become by its next step when it runs alone: a
\* set that depends on the call's own record only (and on what the backend
\* answers to it), not on `ai' nor on any other call.
C14_Alone(call) ==
    CASE call.pc = "submit" ->
            {PollTest(call, op) : op \in OperationSnapshots(Handles)}
                \cup {Rejected(call)}
      [] call.pc = "delay" ->
            {[call EXCEPT !.pc = "get",
                          !.trace = Append(@, "operations.get")]}
      [] call.pc = "get" ->
            {PollTest(call, op) :
                 op \in OperationSnapshots({call.op.handle})}
                \cup {Rejected(call)}
      [] call.pc = "query" ->
            {QueryOutcome(call, i) : i \in DOMAIN QueryReplies}
                \cup {Rejected(call)}
      [] call.pc = "create" ->
            {CreateOutcome([call EXCEPT !.reply = i], CreateReplies[i]) :
                 i \in DOMAIN CreateReplies}
                \cup {Rejected(call)}
      [] OTHER -> {}

\* C14: under every interleaving of two service calls and of calls of
\* initialize, a step changes at most one call; a call of initialize
\* changes none and never takes the client away from a suspended call; and
\* each step of a call in flight is one it could take running alone, with
\* the same requests and the same result.
C14_AsIfAlone ==
    /\ [](\A c \in Pair :
            /\ InFlight(calls[c]) => ai
            /\ calls[c].err # "TypeError")
    /\ [][/\ ai => ai'
          /\ \A c \in Pair :
                calls'[c] # calls[c] =>
                    /\ \A d \in Pair \ {c} : calls'[d] = calls[d]
                    /\ InFlight(calls[c]) => calls'[c] \in C14_Alone(calls[c])
       ]_vars

\* An ingestion in its second round of the loop while a query is awaiting
\* its answer.
C14_Witness ==
    \E c \in Pair : \E d \in Pair \ {c} :
        /\ calls[c].fn = "uploadDocument"
        /\ calls[c].pc = "delay"
        /\ Fetches(calls[c]) = 1
        /\ calls[d].fn = "fileSearch"
        /\ calls[d].pc = "query"

-----------------------------------------------------------------------------
(* Claims about retries *)

C15_RequestOf(fn) ==
    CASE fn = "createRagStore" -> "fileSearchStores.create"
      [] fn = "deleteRagStore" -> "fileSearchStores.delete"
      [] fn = "deleteDocument" -> "files.delete"
      [] fn = "fileSearch" -> "models.generateContent"

C15_Requests(trace) == SelectSeq(trace, LAMBDA e : e # "rejected")

\* C15: a createRagStore, deleteRagStore, deleteDocument or fileSearch call
\* that has passed the guard has issued exactly one backend request, the one
\* of its function; when that request was rejected the call has failed with
\* the transport's error and has issued nothing after it; and a call that
\* has ended issues nothing more.
C15_NoRetry ==
    /\ [](\A c \in CallIds :
            LET call == calls[c] IN
            (call.fn \in {"createRagStore", "deleteRagStore",
                          "deleteDocument", "fileSearch"}
               /\ call.trace # <<>>) =>
                /\ C15_Requests(call.trace) = <<C15_RequestOf(call.fn)>>
                /\ Count(call.trace, "rejected") > 0 =>
                      /\ call.trace = <<C15_RequestOf(call.fn), "rejected">>
                      /\ call.pc = "failed"
                      /\ call.err = "TransportError")
    /\ [][\A c \in CallIds :
            (Settled(calls[c]) /\ calls'[c].fn = calls[c].fn) =>
                calls'[c].trace = calls[c].trace]_vars

C15_Witness ==
    /\ calls[Caller].fn = "deleteDocument"
    /\ calls[Caller].pc = "failed"
    /\ calls[Caller].trace = <<"files.delete", "rejected">>

-----------------------------------------------------------------------------
(* Claims about the extraction of the suggested questions *)

\* The answer parses to a non-empty array whose first element is an object
\* with an array-valued `questions'.
C16_TopicFirst(r) ==
    /\ r.hasText /\ r.parses
    /\ r.data.t = "arr"
    /\ r.data.items # <<>>
    /\ r.data.items[1].t = "obj"
    /\ r.data.items[1].has
    /\ r.data.items[1].questions.t = "arr"

\* The string-typed entries of an element's `questions' array.
C16_ArrayEntries(item) ==
    IF item.t = "obj" /\ item.has /\ item.questions.t = "arr"
    THEN Strings(item.questions.items)
    ELSE <<>>

\* The same, and a non-empty string held by `questions' itself.
C16_Entries(item) ==
    IF item.t = "obj" /\ item.has /\ item.questions.t = "str"
       /\ item.questions.s # ""
    THEN <<item.questions.s>>
    ELSE C16_ArrayEntries(item)

\* C16 as stated: on a topic-first array the call returns the concatenation,
\* in element order, of the string-typed entries of the `questions' arrays
\* of all elements; elements without `questions', with a non-array
\* `questions' or null contribute nothing and change nothing.
C16_ArraysOnlyOthersIgnored ==
    \A c \in CallIds :
        (IsGen(calls[c]) /\ calls[c].reply > 0
           /\ C16_TopicFirst(GenReplies[calls[c].reply])) =>
            LET items == GenReplies[calls[c].reply].data.items IN
            /\ calls[c].pc = "returned"
            /\ calls[c].out =
                  Flatten([i \in DOMAIN items |-> C16_ArrayEntries(items[i])])

\* C16, amended: on a topic-first array with no null element the call
\* returns the concatenation, in element order, of the string-typed entries
\* of the `questions' arrays of all elements, an element whose `questions'
\* is a non-empty string contributing that string; elements without
\* `questions' or with any other non-array `questions' contribute nothing
\* and change nothing.  With a null element the call returns the empty
\* sequence.
C16_FlattenedQuestions ==
    \A c \in CallIds :
        (IsGen(calls[c]) /\ calls[c].reply > 0
           /\ C16_TopicFirst(GenReplies[calls[c].reply])) =>
            LET items == GenReplies[calls[c].reply].data.items IN
            /\ calls[c].pc = "returned"
            /\ calls[c].out =
                  IF \E i \in DOMAIN items : items[i].t = "null" THEN <<>>
                  ELSE Flatten([i \in DOMAIN items |-> C16_Entries(items[i])])

\* A topic-first array with a later element whose `questions' is a string,
\* answered by both questions.
C16_Witness ==
    /\ IsGen(calls[Caller]) /\ calls[Caller].reply > 0
    /\ C16_TopicFirst(GenReplies[calls[Caller].reply])
    /\ \E i \in DOMAIN GenReplies[calls[Caller].reply].data.items :
          LET item == GenReplies[calls[Caller].reply].data.items[i] IN
          item.t = "obj" /\ item.has /\ item.questions.t = "str"
    /\ calls[Caller].out = <<"q1", "q2">>

\* The answers that are texts, and the text of such an answer.
C17_IsText(reply) == reply > Len(GenPayloads)
C17_TextOf(reply) == GenTexts[reply - Len(GenPayloads)]

\* The selection as the claim states it: the content of the fenced block
\* when the text holds an opening json fence and a fence after it, whether
\* or not line breaks set them apart; else the slice from the first [ to
\* the last ] when a ] comes after the first [; else the whole trimmed
\* text.
C17_Claimed(responseText) ==
    LET text == Trim(responseText)
        opens == {i \in DOMAIN text : text[i] = FenceJson}
        closes == {j \in DOMAIN text :
                      text[j].k = "fence" /\ opens # {} /\ j > Min(opens)}
    IN  IF opens # {} /\ closes # {}
        THEN Trim(SubSeq(text, Min(opens) + 1, Min(closes) - 1))
        ELSE BracketSlice(text)

\* C17: for every text answered, the text handed to JSON.parse is, up to
\* surrounding blank space, the content of the fenced block when a fenced
\* block is present (with or without line breaks at the fences), else the
\* slice from the first [ to the last ], else the whole trimmed text.
C17_FenceFirstWhenPresent ==
    \A c \in CallIds :
        (IsGen(calls[c]) /\ C17_IsText(calls[c].reply)) =>
            Trim(SelectJsonText(C17_TextOf(calls[c].reply)))
                = C17_Claimed(C17_TextOf(calls[c].reply))

\* The string-typed entries of an array, in order, each as its text.
C18_StringEntries(items) ==
    LET kept == SelectSeq(items, LAMBDA x : x.t = "str") IN
    [i \in DOMAIN kept |-> kept[i].s]

\* The first element is an object with an array-valued `questions'.
C18_IsTopic(item) ==
    item.t = "obj" /\ item.has /\ item.questions.t = "arr"

\* C18: a call answered with a text has returned, and what it returned
\* goes by the parsed payload's first element only: the empty sequence when
\* the text does not parse, when the payload is not an array and when the
\* array is empty; the string-typed entries of the array, in order, when
\* the first element is a string; the empty sequence when the first element
\* is neither a string nor a topic object, whatever the later elements are.
C18_ClassifiedByFirst ==
    \A c \in CallIds :
        (IsGen(calls[c]) /\ calls[c].reply > 0
           /\ GenReplies[calls[c].reply].hasText) =>
            LET r == GenReplies[calls[c].reply] IN
            /\ calls[c].pc = "returned"
            /\ (~r.parses \/ r.data.t # "arr") => calls[c].out = <<>>
            /\ (r.parses /\ r.data.t = "arr") =>
                  LET items == r.data.items IN
                  /\ items = <<>> => calls[c].out = <<>>
                  /\ (items # <<>> /\ items[1].t = "str") =>
                        calls[c].out = C18_StringEntries(items)
                  /\ (items # <<>> /\ items[1].t # "str"
                        /\ ~C18_IsTopic(items[1])) =>
                        calls[c].out = <<>>

\* An array whose first element is a number and whose second is a string,
\* answered by the empty sequence.
C18_Witness ==
    /\ IsGen(calls[Caller]) /\ calls[Caller].reply > 0
    /\ GenReplies[calls[Caller].reply].parses
    /\ GenReplies[calls[Caller].reply].data.t = "arr"
    /\ Len(GenReplies[calls[Caller].reply].data.items) = 2
    /\ GenReplies[calls[Caller].reply].data.items[1].t = "num"
    /\ GenReplies[calls[Caller].reply].data.items[2].t = "str"
    /\ calls[Caller].pc = "returned"
    /\ calls[Caller].out = <<>>

\* The literal model outputs and the results listed for them.
C19_Cases ==
    << \* ["q1","q2"]
       [text |-> <<Punct("["), Lit("q1"), Punct(","), Lit("q2"), Punct("]")>>,
        out |-> <<"q1", "q2">>],
       \* a fenced block holding [{"product":"A","questions":["q1","q2"]}]
       [text |-> <<FenceJson, NL, Punct("["), Punct("{"), Lit("product"),
                   Punct(":"), Lit("A"), Punct(","), Lit("questions"),
                   Punct(":"), Punct("["), Lit("q1"), Punct(","), Lit("q2"),
                   Punct("]"), Punct("}"), Punct("]"), NL, FenceEnd>>,
        out |-> <<"q1", "q2">>],
       \* not json at all
       [text |-> <<Word("not"), SP, Word("json"), SP, Word("at"), SP,
                   Word("all")>>,
        out |-> <<>>],
       \* []
       [text |-> <<Punct("["), Punct("]")>>, out |-> <<>>] >>

\* C19: a call answered with one of the literal outputs has returned (it
\* has not raised) the result listed for that output.
C19_LiteralOutputs ==
    \A c \in CallIds : \A k \in DOMAIN C19_Cases :
        (IsGen(calls[c]) /\ C17_IsText(calls[c].reply)
           /\ C17_TextOf(calls[c].reply) = C19_Cases[k].text) =>
            /\ calls[c].pc = "returned"
            /\ calls[c].err = "none"
            /\ calls[c].out = C19_Cases[k].out

\* The fenced block has been answered by its two questions.
C19_Witness ==
    /\ IsGen(calls[Caller]) /\ C17_IsText(calls[Caller].reply)
    /\ C17_TextOf(calls[Caller].reply) = C19_Cases[2].text
    /\ calls[Caller].pc = "returned"
    /\ calls[Caller].out = <<"q1", "q2">>

-----------------------------------------------------------------------------
(* Claims about the language of a query *)

\* C20: a fileSearch call that has passed the guard names in its prompt the
\* table's language name when its code is in the table and "the user's
\* query language" for every other code; it has issued exactly one
\* generateContent request, scoped to the one store it was given; and it
\* has failed only if that request was rejected.
C20_LanguageNeverFailsQuery ==
    \A c \in CallIds :
        LET call == calls[c] IN
        (call.fn = "fileSearch" /\ call.trace # <<>>) =>
            /\ call.languageName =
                  IF call.language \in DOMAIN supportedLanguages
                  THEN supportedLanguages[call.language]
                  ELSE "the user's query language"
            /\ Count(call.trace, "models.generateContent") = 1
            /\ call.scope = <<call.arg>>
            /\ call.pc = "failed" => Last(call.trace) = "rejected"

-----------------------------------------------------------------------------
(* Claims about the result of a query *)

\* C21: a fileSearch call that got the backend's answer has returned; the
\* text of its result is the answer's text as it is, and its groundingChunks
\* are the chunks of the first candidate in their order when the answer has
\* them, the empty sequence when the chain to them breaks at the
\* candidates, at the grounding metadata or at the chunks; the field is
\* never left undefined.
C21_ResultIsNormalized ==
    \A c \in CallIds :
        (calls[c].fn = "fileSearch" /\ calls[c].reply > 0) =>
            LET response == QueryReplies[calls[c].reply] IN
            /\ calls[c].pc = "returned"
            /\ calls[c].res.text = response.text
            /\ calls[c].res.groundingChunks =
                  IF response.upTo = "groundingChunks" THEN response.chunks
                  ELSE <<>>
            /\ \A i \in DOMAIN calls[c].res.groundingChunks :
                  calls[c].res.groundingChunks[i] # "undefined"

\* An answer with candidates but no grounding metadata, returned with its
\* text and no citation.
C21_Witness ==
    /\ calls[Caller].fn = "fileSearch"
    /\ calls[Caller].reply > 0
    /\ QueryReplies[calls[Caller].reply].upTo = "candidates"
    /\ calls[Caller].pc = "returned"
    /\ calls[Caller].res = [text |-> <<"t">>, groundingChunks |-> <<>>]

-----------------------------------------------------------------------------
(* Claims about an ingestion already finished at its submit *)

\* C24: an ingestion call whose submit was answered by a done operation has
\* returned with no sleep and no status fetch; and in every ingestion call
\* the status fetches issued are as many as the not-done observations, the
\* submit's answer included (one less while the call sleeps before the
\* fetch its last not-done observation asks for).
C24_FetchesAreNotDoneObservations ==
    \A c \in CallIds :
        LET call == calls[c] IN
        (IsUpload(call) /\ call.obs # <<>>) =>
            /\ call.obs[1].done =>
                  /\ call.pc = "returned"
                  /\ call.trace = <<"uploadToFileSearchStore">>
                  /\ Sleeps(call) = 0 /\ Fetches(call) = 0
                  /\ call.slept = 0
            /\ call.pc = "delay" => Fetches(call) = NotDone(call.obs) - 1
            /\ call.pc # "delay" => Fetches(call) = NotDone(call.obs)

C24_Witness ==
    \E c \in CallIds :
        /\ calls[c].fn = "uploadDocument"
        /\ calls[c].obs # <<>>
        /\ calls[c].obs[1].done
        /\ calls[c].pc = "returned"
        /\ Fetches(calls[c]) = 0

-----------------------------------------------------------------------------
(* Claims about the upload dialog *)

C23_NonSpace(s) == {i \in DOMAIN s : s[i] # " "}

\* The part of s between its first and its last character that is not a
\* space.
C23_Stripped(s) ==
    IF C23_NonSpace(s) = {} THEN <<>>
    ELSE SubSeq(s, Min(C23_NonSpace(s)), Max(C23_NonSpace(s)))

\* The entries the form rows stand for, row by row.
RECURSIVE C23_Entries(_)
C23_Entries(rows) ==
    IF rows = <<>> THEN <<>>
    ELSE (IF C23_NonSpace(Head(rows).key) = {} THEN <<>>
          ELSE <<[key |-> C23_Stripped(Head(rows).key),
                  stringValue |-> C23_Stripped(Head(rows).value)]>>)
         \o C23_Entries(Tail(rows))

C23_UploadStarts(c) ==
    /\ calls[c].pc = "idle"
    /\ calls'[c].fn = "uploadDocument"
    /\ calls'[c].by = "handleUploadDocument"

\* C23: an upload is started from the dialog only with a file selected, and
\* the customMetadata of its request are the form's rows with a key that is
\* not blank, in the order of the rows, as {key, stringValue} with the key
\* and the value trimmed; so every entry has a key that is not empty.
C23_MetadataIsFormatted ==
    [][\A c \in CallIds :
          C23_UploadStarts(c) =>
              /\ view.selectedFile # <<>>
              /\ calls'[c].metadata = C23_Entries(view.metadata)
              /\ \A i \in DOMAIN calls'[c].metadata :
                    LET m == calls'[c].metadata[i] IN
                    /\ DOMAIN m = {"key", "stringValue"}
                    /\ m.key # <<>>
                    /\ Head(m.key) # " " /\ Last(m.key) # " "
                    /\ m.stringValue # <<>> =>
                          Head(m.stringValue) # " "
                          /\ Last(m.stringValue) # " "]_vars

\* An upload whose form held a padded key with a padded value, then a plain
\* key with an empty value.
C23_Witness ==
    \E c \in CallIds :
        /\ calls[c].fn = "uploadDocument"
        /\ calls[c].by = "handleUploadDocument"
        /\ calls[c].pc = "submit"
        /\ calls[c].metadata =
              << [key |-> <<"k">>, stringValue |-> <<"v">>],
                 [key |-> <<"j">>, stringValue |-> <<>>] >>

C22_Handler(call) == call.by = "handleUploadDocument"

\* C22: handleUploadDocument asks for the listing only in the step in which
\* its uploadDocument call has returned; when that listing has returned to
\* a mounted view with the store still selected, documents holds the
\* uploaded document; when the upload was rejected, the handler ends with
\* no listing asked for and documents as it was.
C22_UploadThenListed ==
    [][\A c \in CallIds :
          /\ (C22_Handler(calls'[c])
               /\ calls'[c].fn = "listDocumentsInStore"
               /\ calls[c].fn # "listDocumentsInStore")
              => (C22_Handler(calls[c]) /\ calls[c].fn = "uploadDocument"
                  /\ calls[c].pc = "returned"
                  /\ calls[c].obs # <<>> /\ Last(calls[c].obs).done)
          /\ (C22_Handler(calls[c]) /\ calls[c].fn = "listDocumentsInStore"
               /\ calls[c].pc = "returned" /\ calls'[c].pc = "idle"
               /\ Attached(calls[c]) /\ view.selectedStore = calls[c].arg)
              => Uploaded(calls[c].arg) \in Elements(view'.documents)
          /\ (C22_Handler(calls[c]) /\ calls[c].fn = "uploadDocument"
               /\ calls[c].pc = "failed" /\ calls'[c] # calls[c])
              => (calls'[c].pc = "idle"
                  /\ view'.documents = view.documents)]_vars

-----------------------------------------------------------------------------
(* Claims about ManagementView under interleavings *)

\* A handler that awaits a document listing has not yet run to its end.
C25_ListingInFlight ==
    \E c \in CallIds :
        calls[c].fn = "listDocumentsInStore" /\ calls[c].pc # "idle"

\* C25: while the view is mounted and no document listing is in flight,
\* every document of documents has a name that starts with the selected
\* store's name and "/", and documents is empty when no store is selected.
C25_DocumentsOfSelectedStore ==
    (Mounted /\ ~C25_ListingInFlight) =>
        /\ view.selectedStore = <<>> => view.documents = <<>>
        /\ \A i \in DOMAIN view.documents :
              StartsWith(view.documents[i].name,
                         view.selectedStore \o <<"/">>)

\* C26: while the view is mounted, a queryResult that is not null is the
\* result of a query asked of the store that is selected now.
C26_ResultOfSelectedStore ==
    (Mounted /\ ~view.queryResult.null) =>
        view.queryResult.of = view.selectedStore

\* The activations of handleUploadDocument that have not run to their end.
C27_Ingesting ==
    {c \in CallIds :
        calls[c].by = "handleUploadDocument" /\ calls[c].pc # "idle"}

\* C27: at most one ingestion started from the view is in flight; while the
\* view is mounted, processingFile is set exactly while an activation of
\* handleUploadDocument started from it is in flight, and the dialog is
\* open only while processingFile is null.
C27_OneIngestionAtATime ==
    /\ Cardinality(C27_Ingesting) <= 1
    /\ Mounted =>
          /\ view.processingFile # <<>>
                <=> \E c \in C27_Ingesting : ~calls[c].unmounted
          /\ view.isUploadModalOpen => view.processingFile = <<>>

\* A handler of the mounted view is awaiting a call of `fn'.
C28_Awaiting(fn) ==
    \E c \in CallIds :
        /\ calls[c].fn = fn /\ calls[c].pc # "idle"
        /\ calls[c].by # "none" /\ ~calls[c].unmounted

\* C28: while the view is mounted, isLoadingStores is set whenever a store
\* listing is awaited, isLoadingDocuments whenever loadDocuments awaits its
\* listing, isQuerying whenever a query is awaited; and once the mount
\* effect has run and no call is left, the three are false and
\* processingFile is null.
C28_FlagsFollowCalls ==
    Mounted =>
        /\ C28_Awaiting("listRagStores") => view.isLoadingStores
        /\ (\E c \in CallIds : calls[c].by = "loadDocuments"
                                /\ ~calls[c].unmounted)
              => view.isLoadingDocuments
        /\ C28_Awaiting("fileSearch") => view.isQuerying
        /\ (ai /\ \A c \in CallIds : calls[c].pc = "idle")
              => /\ ~view.isLoadingStores
                 /\ ~view.isLoadingDocuments
                 /\ ~view.isQuerying
                 /\ view.processingFile = <<>>

-----------------------------------------------------------------------------
(* Claims about the deletions *)

\* docs without the entries named docName, the others in their order.
RECURSIVE C29_Without(_, _)
C29_Without(docs, docName) ==
    IF docs = <<>> THEN <<>>
    ELSE (IF Head(docs).name = docName THEN <<>> ELSE <<Head(docs)>>)
         \o C29_Without(Tail(docs), docName)

C29_Deleting(call) == call.by = "handleDeleteDocument"

\* C29: handleDeleteDocument starts its backend delete only with a store
\* selected and leaves documents alone in every step but the one after a
\* delete that returned, where a mounted view's documents lose exactly the
\* entries named as the deleted document and keep the others in order; it
\* asks for no listing; after a delete that was rejected documents is as it
\* was and the error handler has been called.
C29_DeleteDocumentFrame ==
    [][\A c \in CallIds :
          /\ (~C29_Deleting(calls[c]) /\ C29_Deleting(calls'[c]))
              => /\ view.selectedStore # <<>>
                 /\ calls'[c].fn = "deleteDocument"
                 /\ calls'[c].arg \in Names(view.documents)
                 /\ view' = view
          /\ (C29_Deleting(calls[c]) /\ calls'[c] # calls[c])
              => /\ calls'[c].fn \in {"deleteDocument", "idle"}
                 /\ \A d \in CallIds \ {c} : calls'[d] = calls[d]
                 /\ view'.documents =
                       IF calls[c].pc = "returned" /\ Attached(calls[c])
                       THEN C29_Without(view.documents, calls[c].arg)
                       ELSE view.documents
                 /\ calls[c].pc = "failed" => view'.error # "none"
                 /\ calls[c].pc = "returned" => view'.error = view.error
          ]_vars

\* Store a's documents after a/x has been deleted from the list.
C29_Witness ==
    /\ Mounted /\ view.selectedStore = StoreA
    /\ view.documents = <<Ay>>

C30_Handler(call) == call.by = "handleDeleteStore" /\ Attached(call)

\* C30: when handleDeleteStore's delete has returned, the selection becomes
\* null if the handler was started on the selected store and is left as it
\* is otherwise, and the store list is reloaded; when the handler then ends
\* with its reload returned and no store selected, documents is empty and
\* queryResult is null; when the delete was rejected, the selection is left
\* as it is and no reload is asked for.
C30_DeleteStoreDeselects ==
    [][\A c \in CallIds :
          /\ (C30_Handler(calls[c]) /\ calls[c].fn = "deleteRagStore"
               /\ calls[c].pc = "returned" /\ calls'[c] # calls[c])
              => /\ view'.selectedStore =
                       IF calls[c].sel = calls[c].storeName THEN <<>>
                       ELSE view.selectedStore
                 /\ calls'[c].fn = "listRagStores"
                 /\ calls'[c].pc = "page"
          /\ (C30_Handler(calls[c]) /\ calls[c].fn = "deleteRagStore"
               /\ calls[c].pc = "failed" /\ calls'[c] # calls[c])
              => /\ view'.selectedStore = view.selectedStore
                 /\ calls'[c].pc = "idle"
          /\ (C30_Handler(calls[c]) /\ calls[c].fn = "listRagStores"
               /\ calls[c].pc = "returned" /\ calls'[c].pc = "idle"
               /\ calls[c].sel = calls[c].storeName
               /\ view'.selectedStore = <<>>)
              => /\ view'.documents = <<>>
                 /\ view'.queryResult.null
          ]_vars

-----------------------------------------------------------------------------
(* Claims about App *)

\* The message a handler that ends in failure hands to handleError.
C31_Message(call) ==
    IF call.by = "loadStores" THEN "Failed to load document stores"
    ELSE "Failed to load documents"

\* C31: while App's error is not null the error screen is rendered,
\* whatever the view; the error becomes null only in a step that also sets
\* the view to 'dashboard' (clearError), whatever the view was; and a
\* handler that fails, also while an error is shown, leaves its own message
\* as the error.
C31_ErrorScreenUntilCleared ==
    /\ [](view.error # "none" =>
            renderContent(view) = "Application Error")
    /\ [][
          /\ (view.error # "none" /\ view'.error = "none")
                => view'.view = "dashboard"
          /\ (view.error # "none" /\ view'.view # view.view)
                => (view'.error = view.error
                    \/ (view'.error = "none" /\ view'.view = "dashboard"))
          /\ \A c \in CallIds :
                (calls[c].by # "none" /\ calls[c].pc = "failed"
                 /\ calls'[c].pc = "idle")
                    => view'.error = C31_Message(calls[c])
          ]_vars

\* The error screen stands in place of the chat view, with the message of a
\* document listing that failed after the user had left the management
\* view.
C31_Witness ==
    /\ view.view = "chat"
    /\ view.error = "Failed to load documents"
    /\ renderContent(view) = "Application Error"

-----------------------------------------------------------------------------
(* Claim about ChatInterface's currentSuggestion *)

\* The element after position k of a list, cyclically.
C32_Next(suggestions, k) == suggestions[(k % Len(suggestions)) + 1]

=============================================================================
